---- MODULE Spec2Model ----
(***************************************************************************)
(* Model of the historical-data download pipeline of lean_playground:      *)
(* BinanceClient.download_from_archive, BinanceClient.download_klines and  *)
(* BinanceClient.download_range_from_archive (binance_client.py),          *)
(* Resolution.from_interval and LeanDataWriter.write_bars (lean_writer.py) *)
(* and download_data over download_binance_data (download.py).             *)
(*                                                                         *)
(* In the client, time is counted in milliseconds since 1970-01-01 00:00   *)
(* UTC, on a scaled clock: a day lasts MsPerDay milliseconds.  A naive     *)
(* datetime is the number of milliseconds it shows; the calendar (year,    *)
(* month, day) of a day is the proleptic Gregorian one.  In the writer and *)
(* in download_data a datetime is a number of whole seconds, of days of    *)
(* 86400 seconds.                                                          *)
(***************************************************************************)
EXTENDS Integers, Sequences, FiniteSets, TLC

\* ----------------------------------------------------------------- bounds
\* milliseconds in one (scaled) day
MsPerDay == 2
\* longest range, in days after the start day, of a sub-daily request
MaxSpanDays == 2
\* the long range, in days after the start day, of a daily+ request
MaxSpanMonthly == 30
\* most rows in one archive file
MaxRows == 1
\* most klines in one page of the REST endpoint
MaxPageRows == 1
\* length, in ms, of the longest window paged from a well-behaved endpoint
MaxPagingSpan == 4

\* --------------------------------------------------------------- calendar
IsLeap(y) == (y % 4 = 0) /\ ((y % 100 # 0) \/ (y % 400 = 0))

DaysInMonth(y, m) ==
    IF m \in {4, 6, 9, 11} THEN 30
    ELSE IF m = 2 THEN (IF IsLeap(y) THEN 29 ELSE 28)
    ELSE 31

RECURSIVE DateFrom(_, _, _)
\* the date n days after the first day of month m of year y
DateFrom(y, m, n) ==
    IF n < DaysInMonth(y, m)
    THEN [year |-> y, month |-> m, day |-> n + 1]
    ELSE DateFrom(IF m = 12 THEN y + 1 ELSE y,
                  IF m = 12 THEN 1 ELSE m + 1,
                  n - DaysInMonth(y, m))

\* 2024-01-01 is day 19723 of the Unix epoch; the model's dates are later
DateOfDay(d) == DateFrom(2024, 1, d - 19723)

\* datetime -> its calendar day (days since the epoch)
DayOf(t) == t \div MsPerDay
\* datetime.replace(hour=0, minute=0, second=0, microsecond=0)
Midnight(t) == DayOf(t) * MsPerDay
\* timedelta(days=n)
Days(n) == n * MsPerDay
\* datetime.year / .month / .day
YearOf(t) == DateOfDay(DayOf(t)).year
MonthOf(t) == DateOfDay(DayOf(t)).month
DayOfMonth(t) == DateOfDay(DayOf(t)).day
\* datetime.replace(day=n), n within the month
ReplaceDay(t, n) == t + Days(n - DayOfMonth(t))

\* the step without its last replace(day=1)
NextMonthNotReset(m) == ReplaceDay(m, 28) + Days(4)

\* (m.replace(day=28) + timedelta(days=4)).replace(day=1)
NextMonth(m) == ReplaceDay(ReplaceDay(m, 28) + Days(4), 1)

\* ------------------------------------------------------------------- bars
BarData(ts, o, h, c) ==
    [timestamp |-> ts, open |-> o, high |-> h, low |-> 1, close |-> c, volume |-> 1]

\* the (open, high, close) a source may report for one instant
Quotes == {<<1, 1, 1>>, <<1, 2, 1>>, <<2, 2, 1>>}

BarsAt(times) == {BarData(t, q[1], q[2], q[3]) : t \in times, q \in Quotes}

SeqsUpTo(S, n) == UNION {[1..k -> S] : k \in 0..n}

Range(s) == {s[i] : i \in 1..Len(s)}

\* a filter that forgets the upper end of the window
InWindowNoUpperEnd(bars, lo, hi) ==
    SelectSeq(bars, LAMBDA b : lo <= b.timestamp)

\* a filter that forgets the lower end of the window
InWindowNoLowerEnd(bars, lo, hi) ==
    SelectSeq(bars, LAMBDA b : b.timestamp <= hi)

\* [b for b in bars if lo <= b.timestamp <= hi]
InWindow(bars, lo, hi) ==
    SelectSeq(bars, LAMBDA b : lo <= b.timestamp /\ b.timestamp <= hi)

\* the bars of a batch from source src that the filter removes
Removed(bars, src, lo, hi) ==
    {[source |-> src, timestamp |-> b.timestamp] :
        b \in {x \in Range(bars) : ~ (lo <= x.timestamp /\ x.timestamp <= hi)}}

\* one all_bars.extend(...): the source of the bars, the day or month (or the
\* start of the API span) they were fetched for, and the bars added
Batch(src, for, bars) == [source |-> src, for |-> for, bars |-> bars]

Failed(was, src, failed) == IF failed THEN was \cup {src} ELSE was

RECURSIVE InsertBeforeEquals(_, _)
\* an insertion that puts b before the bars of its own timestamp: the sort is
\* no longer stable
InsertBeforeEquals(s, b) ==
    IF s = <<>> THEN <<b>>
    ELSE IF s[Len(s)].timestamp < b.timestamp THEN Append(s, b)
    ELSE Append(InsertBeforeEquals(SubSeq(s, 1, Len(s) - 1), b), s[Len(s)])

RECURSIVE InsertByTimestamp(_, _)
\* b placed after every bar of the sorted s whose timestamp is <= its own
InsertByTimestamp(s, b) ==
    IF s = <<>> THEN <<b>>
    ELSE IF s[Len(s)].timestamp <= b.timestamp THEN Append(s, b)
    ELSE Append(InsertByTimestamp(SubSeq(s, 1, Len(s) - 1), b), s[Len(s)])

RECURSIVE SortByTimestamp(_)
\* list.sort(key=lambda b: b.timestamp): stable
SortByTimestamp(s) ==
    IF s = <<>> THEN <<>>
    ELSE InsertByTimestamp(SortByTimestamp(SubSeq(s, 1, Len(s) - 1)), s[Len(s)])

BarKey(b) == <<b.timestamp, b.open, b.close>>

RECURSIVE UniqueBars(_, _)
\* the seen / unique_bars loop: the first bar of each key is kept
UniqueBars(s, seen) ==
    IF s = <<>> THEN <<>>
    ELSE IF BarKey(Head(s)) \in seen THEN UniqueBars(Tail(s), seen)
    ELSE <<Head(s)>> \o UniqueBars(Tail(s), seen \cup {BarKey(Head(s))})

\* the dedup loop run on the bars as accumulated, the sort forgotten
DedupWithoutSort(bars) == UniqueBars(bars, {})

\* lines 456-466
SortAndDedup(bars) == UniqueBars(SortByTimestamp(bars), {})


\* ------------------------------------------------------------------ state
VARIABLES
    op,                 \* the call under way: "range" or "klines"
    interval, start_time, end_time, fallback_to_api,
    utc_offset,         \* local time minus UTC, in ms (naive datetimes are local)
    held,               \* the klines a well-behaved endpoint holds, {} otherwise
    pc,                 \* "archive_pass", "api_fallback", "klines", "done", "raised"
    current_date, end_date, current_month, end_month,
    downloaded_months, missing_days, all_bars,
    archive_requests,   \* every archive request sent, in order; day 0 is no day
    failed_sources,     \* the sources one of whose requests has failed
    discarded,          \* the bars the window filter removed, with their source
    appended,           \* every batch all_bars was extended with, in order
    api_calls,          \* the download_klines calls of the reconciler
    result,             \* what download_range_from_archive returned
    k_state,            \* download_klines: "idle", "loop", "returned", "raised"
    k_start_time, k_end_time, k_limit, k_current_start, k_all_bars,
    k_requests,         \* the params of every page request of the call, in order
    k_pages,            \* every page of klines received, in order
    k_exit,             \* why the paging loop was left
    files,              \* the ZIP files of the data directory, one per path
    dirs,               \* the directories made under the data directory
    w_pc,               \* write_bars: "idle", "called", "returned", "raised"
    w_bars, w_symbol, w_market, w_interval, w_asset_class,
    w_resolution,       \* what Resolution.from_interval gave, "none" before
    w_fail_at,          \* the file whose write fails (OSError), 0 for none
    w_written,          \* what write_bars returned
    w_before,           \* the files of the data directory when write_bars was called
    a_state,            \* the row loop of download_from_archive: "idle", "rows",
                        \* "returned"
    a_rows,             \* the rows of the frame read from the CSV, in file order
    a_next,             \* the row the loop is at, from 1
    a_bars,             \* bars, the list the loop appends to and returns
    b_op,               \* "none", "run_backtest" or "build_backtest_config"
    b_pc,               \* "idle", "called", "results_dir_made", "config_built",
                        \* "config_written", "returned", "raised"
    b_env,              \* what is on the disk and can be done when the call starts
    b_algorithm,        \* the algorithm_file given to build_backtest_config
    b_effects,          \* results directories made, config files written and
                        \* removed, engine processes started
    b_config,           \* the config build_backtest_config returned, in a list
    b_error,            \* the exception that left the call, "none" for none
    b_exit,             \* the return code of the engine, -1 before
    d_pc,               \* download_data: "idle", "called", "pairs", "yielded",
                        \* "returned", "raised"
    d_symbols, d_intervals, d_exchange, d_start, d_end, d_use_archive,
    d_account_type,
    d_pair,             \* the pair of symbols x intervals being processed, from 1
    d_session,          \* the client's session: "none", "open", "closed"
    d_result,           \* symbol -> list of paths
    d_error,            \* the exception download_data raised, "none" if none
    d_bars,             \* the bars the generator yielded for the pair
    d_failure,          \* the source failure met in the pair's download, or "none"
    d_log               \* what the invocation did: sessions opened and closed,
                        \* pairs with network requests, write_bars calls, and
                        \* per symbol the paths of the ZIP files written

range_vars == <<current_date, end_date, current_month, end_month,
                downloaded_months, missing_days, all_bars, archive_requests,
                api_calls, result>>
klines_vars == <<k_state, k_start_time, k_end_time, k_limit, k_current_start,
                 k_all_bars, k_requests, k_pages, k_exit>>
input_vars == <<op, interval, start_time, end_time, fallback_to_api, utc_offset,
               held>>
log_vars == <<failed_sources, discarded, appended>>
disk_vars == <<files, dirs>>
writer_vars == <<w_pc, w_bars, w_symbol, w_market, w_interval, w_asset_class,
                 w_resolution, w_fail_at, w_written, w_before>>
archive_vars == <<a_state, a_rows, a_next, a_bars>>
backtest_vars == <<b_op, b_pc, b_env, b_algorithm, b_effects, b_config, b_error,
                   b_exit>>
download_vars == <<d_pc, d_symbols, d_intervals, d_exchange, d_start, d_end,
                   d_use_archive, d_account_type, d_pair, d_session, d_result,
                   d_error, d_bars, d_failure, d_log>>
outer_vars == <<disk_vars, writer_vars, download_vars, archive_vars, backtest_vars>>
vars == <<input_vars, pc, log_vars, range_vars, klines_vars, outer_vars>>

\* no write_bars call under way, the data directory empty
NoWriterCall ==
    /\ files = {} /\ dirs = {}
    /\ w_pc = "idle" /\ w_bars = <<>> /\ w_symbol = <<>> /\ w_market = <<>>
    /\ w_interval = "none" /\ w_asset_class = "none" /\ w_resolution = "none"
    /\ w_fail_at = 0 /\ w_written = <<>> /\ w_before = {}

\* no download_from_archive row loop under way
NoArchiveCall == a_state = "idle" /\ a_rows = <<>> /\ a_next = 0 /\ a_bars = <<>>

\* no run_backtest or build_backtest_config call under way
NoBacktest ==
    /\ b_op = "none" /\ b_pc = "idle" /\ b_env = <<>> /\ b_algorithm = <<>>
    /\ b_effects = <<>> /\ b_config = <<>> /\ b_error = "none" /\ b_exit = -1

\* no download_data invocation under way
NoDownloadData ==
    /\ d_pc = "idle" /\ d_symbols = <<>> /\ d_intervals = <<>>
    /\ d_exchange = <<>> /\ d_start = 0 /\ d_end = 0 /\ d_use_archive = FALSE
    /\ d_account_type = "none" /\ d_pair = 0 /\ d_session = "none"
    /\ d_result = <<>> /\ d_error = "none" /\ d_bars = <<>>
    /\ d_failure = "none" /\ d_log = <<>>

\* ----------------------------------------------------------------- inputs
\* intervals of the requests modelled: one sub-daily, one daily+
Intervals == {"1h", "1d"}

\* limit: int = 1000
DefaultLimit == 1000

\* the requests start on 2024-01-31
StartDays == {19753}

\* local time minus UTC, of the machines modelled
UtcOffsets == {0, 1}

use_monthly_only == interval \in {"1d", "3d", "1w", "1M"}

TimesOfDays(d1, d2) == Days(d1) .. (Days(d2 + 1) - 1)

\* the two ends of the requested window and the instants just outside it
NearWindow == {start_time - 1, start_time, end_time, end_time + 1}

\* the instants the archives hold bars for: those, and the midnights of the
\* first requested days
ArchiveTimes ==
    NearWindow \cup {Days(d) : d \in DayOf(start_time) ..
                        (IF DayOf(end_time) < DayOf(start_time) + MaxSpanDays
                         THEN DayOf(end_time) ELSE DayOf(start_time) + MaxSpanDays)}

\* ------------------------------------------------- download_from_archive
\* how one archive request can end
ArchiveFailures == {"not_found", "bad_status", "not_zip", "bad_zip",
                    "parse_error", "client_error", "timeout"}

\* 1483228800 and 1893456000 are whole days: 86400 s each, MsPerDay ms here
MinArchiveSecond == 1483228800
MaxArchiveSecond == 1893456000

\* a row of the CSV: open_time in ms, and whether its fields coerce to numbers
ArchiveRow(b, time_ok, fields_ok) ==
    [open_time |-> b.timestamp, open_time_numeric |-> time_ok,
     numeric |-> fields_ok, bar |-> b]

\* the rows an archive file may hold
ArchiveRows(times) ==
    {ArchiveRow(b, TRUE, TRUE) : b \in BarsAt(times)}
      \cup {ArchiveRow(BarData(t, 1, 1, 1), ok[1], ok[2]) :
              t \in {Days(MinArchiveSecond \div 86400) - 1,
                     Days(MaxArchiveSecond \div 86400) + 1},
              ok \in {<<TRUE, TRUE>>}}
      \cup {ArchiveRow(BarData(start_time, 1, 1, 1), ok[1], ok[2]) :
              ok \in {<<FALSE, TRUE>>, <<TRUE, FALSE>>}}

ArchiveResponses(times) ==
    {[kind |-> k, rows |-> <<>>] : k \in ArchiveFailures}
      \cup {[kind |-> "ok", rows |-> r] : r \in SeqsUpTo(ArchiveRows(times), MaxRows)}

\* the checks of one row: isinstance, the 2017..2030 range, float() of the fields
RowAccepted(row) ==
    /\ row.open_time_numeric
    /\ ~ (row.open_time < Days(MinArchiveSecond \div 86400))
    /\ ~ (row.open_time > Days(MaxArchiveSecond \div 86400))
    /\ row.numeric

RECURSIVE ParseRows(_)
ParseRows(rows) ==
    IF rows = <<>> THEN <<>>
    ELSE (IF RowAccepted(Head(rows)) THEN <<Head(rows).bar>> ELSE <<>>)
           \o ParseRows(Tail(rows))

\* download_from_archive without its last, catch-all except clause
DownloadFromArchiveUncaught(resp) ==
    [raised |-> resp.kind = "parse_error",
     failed |-> resp.kind # "ok",
     bars |-> IF resp.kind = "ok" THEN ParseRows(resp.rows) ELSE <<>>]

\* the outcome of download_from_archive: every failure is caught and gives []
DownloadFromArchive(resp) ==
    [raised |-> FALSE,
     failed |-> resp.kind # "ok",
     bars |-> IF resp.kind = "ok" THEN ParseRows(resp.rows) ELSE <<>>]

\* the outcomes of one archive request, over every answer of the archive; a
\* file holds rows of its own period: the day t, or the month of t
ArchiveOutcomes(t, with_day) ==
    {DownloadFromArchive(resp) : resp \in ArchiveResponses(
        {x \in ArchiveTimes :
            IF with_day THEN DayOf(x) = DayOf(t)
            ELSE YearOf(x) = YearOf(t) /\ MonthOf(x) = MonthOf(t)})}

\* ------------------------------------------- download_range_from_archive
ArchiveRequest(t, with_day) ==
    [year |-> YearOf(t), month |-> MonthOf(t),
     day |-> IF with_day THEN DayOfMonth(t) ELSE 0]

MonthKey(t) == <<YearOf(t), MonthOf(t)>>

RECURSIVE MarkWholeMonth(_, _, _, _)
\* a marking that is not clamped to the requested range
MarkWholeMonth(day, next_month, last, first) ==
    IF day < next_month
    THEN <<day>> \o MarkWholeMonth(day + Days(1), next_month, last, first)
    ELSE <<>>

RECURSIVE MarkMonthMissing(_, _, _, _)
\* while day < next_month and day <= end_date:
\*     if day >= current_date: missing_days.append(day)
MarkMonthMissing(day, next_month, last, first) ==
    IF day < next_month /\ day <= last
    THEN (IF day >= first THEN <<day>> ELSE <<>>)
           \o MarkMonthMissing(day + Days(1), next_month, last, first)
    ELSE <<>>

\* one iteration of the month loop
MonthlyStep ==
    /\ op = "range" /\ pc = "archive_pass" /\ use_monthly_only
    /\ current_month <= end_month
    /\ \E out \in ArchiveOutcomes(current_month, FALSE) :
         LET monthly_bars == out.bars
         IN  /\ archive_requests' =
                   Append(archive_requests, ArchiveRequest(current_month, FALSE))
             /\ failed_sources' = Failed(failed_sources, "archive", out.failed)
             /\ discarded' = discarded
                   \cup Removed(monthly_bars, "monthly", start_time, end_time)
             /\ IF out.raised
                THEN /\ pc' = "raised"
                     /\ UNCHANGED <<all_bars, downloaded_months, missing_days,
                                    current_month, appended>>
                ELSE /\ pc' = pc
                     /\ IF monthly_bars # <<>>
                        THEN /\ all_bars' = all_bars
                                   \o InWindow(monthly_bars, start_time, end_time)
                             /\ appended' = Append(appended,
                                   Batch("monthly", current_month,
                                         InWindow(monthly_bars, start_time, end_time)))
                             /\ downloaded_months' =
                                   downloaded_months \cup {MonthKey(current_month)}
                             /\ UNCHANGED missing_days
                        ELSE /\ missing_days' = missing_days
                                   \o MarkMonthMissing(current_month,
                                         NextMonth(current_month), end_date, current_date)
                             /\ UNCHANGED <<all_bars, downloaded_months, appended>>
                     /\ current_month' = NextMonth(current_month)
    /\ UNCHANGED <<outer_vars, input_vars, current_date, end_date, end_month, api_calls, result,
                   klines_vars>>

\* one iteration of the day loop: the daily file holds bars
DayFromDailyFile ==
    /\ op = "range" /\ pc = "archive_pass" /\ ~ use_monthly_only
    /\ current_date <= end_date
    /\ \E out \in ArchiveOutcomes(current_date, TRUE) :
         LET bars == out.bars
         IN  /\ ~ out.raised /\ bars # <<>>
             /\ archive_requests' =
                   Append(archive_requests, ArchiveRequest(current_date, TRUE))
             /\ failed_sources' = Failed(failed_sources, "archive", out.failed)
             /\ discarded' = discarded
                   \cup Removed(bars, "daily", start_time, end_time)
             /\ all_bars' = all_bars \o InWindow(bars, start_time, end_time)
             /\ appended' = Append(appended,
                   Batch("daily", current_date, InWindow(bars, start_time, end_time)))
    /\ current_date' = current_date + Days(1)
    /\ UNCHANGED <<outer_vars, input_vars, pc, end_date, current_month, end_month,
                   downloaded_months, missing_days, api_calls, result, klines_vars>>

\* one iteration of the day loop: no daily file, the monthly file is tried
DayFromMonthlyFile ==
    /\ op = "range" /\ pc = "archive_pass" /\ ~ use_monthly_only
    /\ current_date <= end_date
    /\ MonthKey(current_date) \notin downloaded_months
    /\ \E out \in ArchiveOutcomes(current_date, TRUE) :
       /\ out.raised \/ out.bars = <<>>
       /\ \E mout \in ArchiveOutcomes(current_date, FALSE) :
         LET monthly_bars == mout.bars
         IN  /\ failed_sources' =
                   Failed(failed_sources, "archive",
                          out.failed \/ (~ out.raised /\ mout.failed))
             /\ discarded' = discarded
                   \cup (IF out.raised THEN {}
                         ELSE Removed(monthly_bars, "monthly", start_time, end_time))
             /\ IF out.raised
                THEN /\ archive_requests' =
                          Append(archive_requests, ArchiveRequest(current_date, TRUE))
                     /\ pc' = "raised"
                     /\ UNCHANGED <<all_bars, downloaded_months, missing_days,
                                    current_date, appended>>
                ELSE /\ archive_requests' = archive_requests
                          \o <<ArchiveRequest(current_date, TRUE),
                               ArchiveRequest(current_date, FALSE)>>
                     /\ IF mout.raised
                        THEN /\ pc' = "raised"
                             /\ UNCHANGED <<all_bars, downloaded_months, missing_days,
                                            current_date, appended>>
                        ELSE /\ pc' = pc
                             /\ IF monthly_bars # <<>>
                                THEN /\ all_bars' = all_bars
                                         \o InWindow(monthly_bars, start_time, end_time)
                                     /\ appended' = Append(appended,
                                         Batch("monthly", current_date,
                                            InWindow(monthly_bars, start_time, end_time)))
                                     /\ downloaded_months' = downloaded_months
                                         \cup {MonthKey(current_date)}
                                     /\ UNCHANGED missing_days
                                ELSE /\ missing_days' = Append(missing_days, current_date)
                                     /\ UNCHANGED <<all_bars, downloaded_months,
                                                    appended>>
                             /\ current_date' = current_date + Days(1)
    /\ UNCHANGED <<outer_vars, input_vars, end_date, current_month, end_month, api_calls, result,
                   klines_vars>>

\* one iteration of the day loop: no daily file, the month was downloaded before
DayMonthAlreadyDownloaded ==
    /\ op = "range" /\ pc = "archive_pass" /\ ~ use_monthly_only
    /\ current_date <= end_date
    /\ MonthKey(current_date) \in downloaded_months
    /\ \E out \in ArchiveOutcomes(current_date, TRUE) :
             /\ out.raised \/ out.bars = <<>>
             /\ archive_requests' =
                   Append(archive_requests, ArchiveRequest(current_date, TRUE))
             /\ failed_sources' = Failed(failed_sources, "archive", out.failed)
             /\ pc' = IF out.raised THEN "raised" ELSE pc
             /\ current_date' =
                   IF out.raised THEN current_date ELSE current_date + Days(1)
    /\ UNCHANGED <<outer_vars, input_vars, end_date, current_month, end_month, downloaded_months,
                   missing_days, all_bars, api_calls, result, klines_vars, discarded,
                   appended>>


\* the loop of the mode is over
ArchivePassOver ==
    /\ op = "range" /\ pc = "archive_pass"
    /\ IF use_monthly_only THEN ~ (current_month <= end_month)
                           ELSE ~ (current_date <= end_date)

RECURSIVE MinOf(_)
MinOf(s) == IF Len(s) = 1 THEN s[1]
            ELSE LET m == MinOf(Tail(s)) IN IF s[1] <= m THEN s[1] ELSE m

RECURSIVE MaxOf(_)
MaxOf(s) == IF Len(s) = 1 THEN s[1]
            ELSE LET m == MaxOf(Tail(s)) IN IF s[1] >= m THEN s[1] ELSE m

\* a fallback that does not look at fallback_to_api
FallbackIgnoringFlag == missing_days # <<>>

\* if missing_days and fallback_to_api
FallbackWanted == missing_days # <<>> /\ fallback_to_api

\* a span that ends at the start of the last missing day
ApiSpanWithoutLastDay(missing) ==
    [start_time |-> MinOf(missing), end_time |-> MaxOf(missing)]

\* api_start = min(missing_days); api_end = max(missing_days) + timedelta(days=1)
ApiSpan(missing) ==
    [start_time |-> MinOf(missing), end_time |-> MaxOf(missing) + Days(1)]

\* download_klines(api_start, api_end) starts
StartApiFallback ==
    /\ ArchivePassOver
    /\ FallbackWanted
    /\ LET span == ApiSpan(missing_days)
       IN  /\ api_calls' = Append(api_calls, span)
           /\ k_start_time' = span.start_time
           /\ k_end_time' = span.end_time
           /\ k_current_start' = span.start_time
    /\ k_limit' = DefaultLimit
    /\ k_state' = "loop"
    /\ k_all_bars' = <<>>
    /\ pc' = "api_fallback"
    /\ UNCHANGED <<outer_vars, input_vars, log_vars, current_date, end_date, current_month,
                   end_month, downloaded_months, missing_days, all_bars,
                   archive_requests, result, k_requests, k_pages, k_exit>>

\* no missing day, or no fallback: sort, drop the duplicates, return
FinishWithoutApi ==
    /\ ArchivePassOver
    /\ ~ FallbackWanted
    /\ result' = SortAndDedup(all_bars)
    /\ pc' = "done"
    /\ UNCHANGED <<outer_vars, input_vars, log_vars, current_date, end_date, current_month,
                   end_month, downloaded_months, missing_days, all_bars,
                   archive_requests, api_calls, klines_vars>>

\* -------------------------------------------------------- download_klines
\* int(dt.timestamp() * 1000) of a naive (local) datetime
ToEpochMs(t) == t - utc_offset
\* datetime.utcfromtimestamp(ms / 1000)
FromEpochMs(ms) == ms

\* the (open, high, close) the REST endpoint may report for one instant
ApiQuotes == IF op = "klines" THEN {<<1, 1, 1>>, <<1, 2, 1>>} ELSE {<<1, 2, 1>>}

\* open times the endpoint may answer with: from just before to just after the
\* call's span, and for the fallback call of the reconciler around the window
PageTimes == IF op = "klines"
             THEN (k_start_time - 1) .. (k_end_time + 1)
             ELSE NearWindow

Klines(times) == {[open_time |-> ToEpochMs(t), open |-> q[1], high |-> q[2],
                   close |-> q[3]] : t \in times, q \in ApiQuotes}

\* the klines of S in ascending order of open_time
RECURSIVE Ascending(_)
Ascending(S) ==
    IF S = {} THEN <<>>
    ELSE LET first == CHOOSE k \in S : \A x \in S : k.open_time <= x.open_time
         IN  <<first>> \o Ascending(S \ {first})

\* the answer of a well-behaved endpoint to the params: in ascending order, the
\* up-to-limit earliest klines it holds with startTime <= open_time <= endTime
WellBehavedPage(params) ==
    LET matching == Ascending({k \in held : /\ params.startTime <= k.open_time
                                            /\ k.open_time <= params.endTime})
    IN  SubSeq(matching, 1, IF Len(matching) < params.limit
                            THEN Len(matching) ELSE params.limit)

PageBars(data) ==
    [i \in 1..Len(data) |->
        BarData(FromEpochMs(data[i].open_time), data[i].open, data[i].high,
                data[i].close)]

PageParams ==
    [startTime |-> ToEpochMs(k_current_start), endTime |-> ToEpochMs(k_end_time),
     limit |-> k_limit]

\* the JSON bodies of a 200 answer, the empty list among them; of a
\* well-behaved endpoint, its one answer
PageBodies == IF op = "paging" THEN {WellBehavedPage(PageParams)}
              ELSE SeqsUpTo(Klines(PageTimes), MaxPageRows)

InKlinesLoop == k_state = "loop" /\ k_current_start < k_end_time

\* the next page taken without the check of last_time against current_start
KlinesPageUnguarded ==
    /\ InKlinesLoop
    /\ \E data \in PageBodies :
         LET last_time == FromEpochMs(data[Len(data)].open_time)
         IN  /\ data # <<>>
             /\ k_all_bars' = k_all_bars \o PageBars(data)
             /\ k_pages' = Append(k_pages, data)
             /\ k_current_start' = last_time + 1
    /\ k_requests' = Append(k_requests, PageParams)
    /\ UNCHANGED <<outer_vars, input_vars, pc, log_vars, range_vars, k_state, k_start_time,
                   k_end_time, k_limit, k_exit>>

\* a 200 answer whose last kline is past current_start: next page
KlinesPage ==
    /\ InKlinesLoop
    /\ \E data \in PageBodies :
         LET last_time == FromEpochMs(data[Len(data)].open_time)
         IN  /\ data # <<>>
             /\ ~ (last_time <= k_current_start)
             /\ k_all_bars' = k_all_bars \o PageBars(data)
             /\ k_pages' = Append(k_pages, data)
             /\ k_current_start' = last_time + 1
    /\ k_requests' = Append(k_requests, PageParams)
    /\ UNCHANGED <<outer_vars, input_vars, pc, log_vars, range_vars, k_state, k_start_time,
                   k_end_time, k_limit, k_exit>>

\* a 200 answer whose last kline is not past current_start: break
KlinesNoProgress ==
    /\ InKlinesLoop
    /\ \E data \in PageBodies :
         LET last_time == FromEpochMs(data[Len(data)].open_time)
         IN  /\ data # <<>>
             /\ last_time <= k_current_start
             /\ k_all_bars' = k_all_bars \o PageBars(data)
             /\ k_pages' = Append(k_pages, data)
    /\ k_requests' = Append(k_requests, PageParams)
    /\ k_state' = "returned"
    /\ k_exit' = "no_progress"
    /\ UNCHANGED <<outer_vars, input_vars, pc, log_vars, range_vars, k_start_time,
                   k_end_time, k_limit, k_current_start>>

\* a 200 answer with no kline: break
KlinesEmptyPage ==
    /\ InKlinesLoop
    /\ <<>> \in PageBodies
    /\ k_requests' = Append(k_requests, PageParams)
    /\ k_state' = "returned"
    /\ k_exit' = "empty_page"
    /\ UNCHANGED <<outer_vars, input_vars, pc, log_vars, range_vars, k_start_time,
                   k_end_time, k_limit, k_current_start, k_all_bars, k_pages>>

\* a non-200 answer or an aiohttp.ClientError that is not caught
KlinesSourceErrorRaises ==
    /\ InKlinesLoop
    /\ \E kind \in {"bad_status", "client_error"} : k_exit' = kind
    /\ k_requests' = Append(k_requests, PageParams)
    /\ k_state' = "raised"
    /\ failed_sources' = Failed(failed_sources, "api", TRUE)
    /\ UNCHANGED <<outer_vars, input_vars, pc, discarded, appended, range_vars, k_start_time,
                   k_end_time,
                   k_limit, k_current_start, k_all_bars, k_pages>>

\* response.status != 200, or aiohttp.ClientError: logged, break
KlinesSourceError ==
    /\ InKlinesLoop
    /\ \E kind \in {"bad_status", "client_error"} : k_exit' = kind
    /\ k_requests' = Append(k_requests, PageParams)
    /\ k_state' = "returned"
    /\ failed_sources' = Failed(failed_sources, "api", TRUE)
    /\ UNCHANGED <<outer_vars, input_vars, pc, discarded, appended, range_vars, k_start_time,
                   k_end_time,
                   k_limit, k_current_start, k_all_bars, k_pages>>

\* the failures of a page request that `except aiohttp.ClientError` does not
\* catch: asyncio.TimeoutError, a body that is not JSON, a malformed kline
UncaughtKlinesFailures == {"timeout", "bad_json", "bad_kline"}

\* an exception that is no aiohttp.ClientError (asyncio.TimeoutError, a body that
\* is not JSON, a malformed kline) leaves download_klines
KlinesException ==
    /\ InKlinesLoop
    /\ \E kind \in UncaughtKlinesFailures : k_exit' = kind
    /\ k_requests' = Append(k_requests, PageParams)
    /\ k_state' = "raised"
    /\ failed_sources' = Failed(failed_sources, "api", TRUE)
    /\ UNCHANGED <<outer_vars, input_vars, pc, discarded, appended, range_vars, k_start_time,
                   k_end_time,
                   k_limit, k_current_start, k_all_bars, k_pages>>

\* while current_start < end_time is false: return all_bars
KlinesExhausted ==
    /\ k_state = "loop" /\ ~ (k_current_start < k_end_time)
    /\ k_state' = "returned"
    /\ k_exit' = "exhausted"
    /\ UNCHANGED <<outer_vars, input_vars, pc, log_vars, range_vars, k_start_time,
                   k_end_time, k_limit, k_current_start, k_all_bars, k_requests,
                   k_pages>>

\* ---------------------------------- download_range_from_archive, the end
\* the call of download_klines is over: its locals are gone
KlinesFrameDropped ==
    /\ k_state' = "idle"
    /\ k_start_time' = 0 /\ k_end_time' = 0 /\ k_limit' = 0 /\ k_current_start' = 0
    /\ k_all_bars' = <<>> /\ k_requests' = <<>> /\ k_pages' = <<>> /\ k_exit' = "none"

\* download_klines returned: its bars are filtered and added; sort, dedup, return
ApiFallbackReturned ==
    /\ op = "range" /\ pc = "api_fallback" /\ k_state = "returned"
    /\ LET api_bars == k_all_bars
           kept == IF api_bars # <<>>
                   THEN all_bars \o InWindow(api_bars, start_time, end_time)
                   ELSE all_bars
       IN  /\ all_bars' = kept
           /\ result' = SortAndDedup(kept)
           /\ discarded' = discarded
                 \cup Removed(api_bars, "api", start_time, end_time)
           /\ appended' = IF api_bars # <<>>
                 THEN Append(appended, Batch("api", k_start_time,
                                 InWindow(api_bars, start_time, end_time)))
                 ELSE appended
    /\ pc' = "done"
    /\ KlinesFrameDropped
    /\ UNCHANGED <<outer_vars, input_vars, failed_sources, current_date, end_date, current_month,
                   end_month, downloaded_months, missing_days, archive_requests,
                   api_calls>>

\* except Exception: the failed fallback is logged; sort, dedup, return
ApiFallbackFailed ==
    /\ op = "range" /\ pc = "api_fallback" /\ k_state = "raised"
    /\ result' = SortAndDedup(all_bars)
    /\ pc' = "done"
    /\ KlinesFrameDropped
    /\ UNCHANGED <<outer_vars, input_vars, log_vars, current_date, end_date, current_month,
                   end_month, downloaded_months, missing_days, all_bars,
                   archive_requests, api_calls>>

\* ------------------------------------------------------------ the machine
NoKlinesCall ==
    /\ k_state = "idle"
    /\ k_start_time = 0 /\ k_end_time = 0 /\ k_limit = 0 /\ k_current_start = 0
    /\ k_all_bars = <<>> /\ k_requests = <<>> /\ k_pages = <<>> /\ k_exit = "none"

\* a call of download_range_from_archive, its locals set (lines 341-351)
Init ==
    /\ op = "range"
    /\ interval \in Intervals
    /\ fallback_to_api \in BOOLEAN
    /\ utc_offset = 0 /\ held = {}
    /\ \E d \in StartDays :
         /\ start_time \in TimesOfDays(d, d)
         /\ \/ end_time \in TimesOfDays(d, d + MaxSpanDays)
            \/ /\ use_monthly_only
               /\ end_time \in TimesOfDays(d + MaxSpanMonthly, d + MaxSpanMonthly)
    /\ start_time <= end_time
    /\ pc = "archive_pass"
    /\ current_date = Midnight(start_time)
    /\ end_date = Midnight(end_time)
    /\ current_month = ReplaceDay(Midnight(start_time), 1)
    /\ end_month = ReplaceDay(Midnight(end_time), 1)
    /\ downloaded_months = {} /\ missing_days = <<>> /\ all_bars = <<>>
    /\ archive_requests = <<>> /\ api_calls = <<>> /\ result = <<>>
    /\ failed_sources = {} /\ discarded = {} /\ appended = <<>>
    /\ NoKlinesCall
    /\ NoWriterCall /\ NoDownloadData /\ NoArchiveCall /\ NoBacktest

KlinesNext ==
    \/ KlinesPage
    \/ KlinesNoProgress
    \/ KlinesEmptyPage
    \/ KlinesSourceError
    \/ KlinesException
    \/ KlinesExhausted

Next ==
    \/ MonthlyStep
    \/ DayFromDailyFile
    \/ DayFromMonthlyFile
    \/ DayMonthAlreadyDownloaded
    \/ StartApiFallback
    \/ FinishWithoutApi
    \/ KlinesNext
    \/ ApiFallbackReturned
    \/ ApiFallbackFailed

\* one call of download_range_from_archive
Spec == Init /\ [][Next]_vars

\* a call of download_klines on its own, its locals set (lines 113-115)
InitKlines ==
    /\ op = "klines"
    /\ interval \in Intervals
    /\ fallback_to_api = FALSE
    /\ utc_offset \in UtcOffsets /\ held = {}
    /\ \E d \in StartDays :
         /\ start_time \in TimesOfDays(d, d)
         /\ end_time \in TimesOfDays(d, d + MaxSpanDays)
    /\ start_time <= end_time
    /\ pc = "klines"
    /\ current_date = 0 /\ end_date = 0 /\ current_month = 0 /\ end_month = 0
    /\ downloaded_months = {} /\ missing_days = <<>> /\ all_bars = <<>>
    /\ archive_requests = <<>> /\ api_calls = <<>> /\ result = <<>>
    /\ failed_sources = {} /\ discarded = {} /\ appended = <<>>
    /\ k_state = "loop"
    /\ k_start_time = start_time /\ k_end_time = end_time
    /\ k_limit \in {1, DefaultLimit}
    /\ k_current_start = start_time
    /\ k_all_bars = <<>> /\ k_requests = <<>> /\ k_pages = <<>> /\ k_exit = "none"
    /\ NoWriterCall /\ NoDownloadData /\ NoArchiveCall /\ NoBacktest

\* one call of download_klines
SpecKlines == InitKlines /\ [][KlinesNext]_vars

\* every request returns: the paging loop is not left waiting for ever
FairSpecKlines == SpecKlines /\ WF_vars(KlinesNext)

\* the page limits of the calls to a well-behaved endpoint
PageLimits == {1, 2, DefaultLimit}

\* a call of download_klines over a window of up to MaxPagingSpan ms, on a UTC
\* machine, to an endpoint that holds at most one kline per instant from just
\* before to just after the window
InitPaging ==
    /\ op = "paging"
    /\ interval \in Intervals
    /\ fallback_to_api = FALSE
    /\ utc_offset = 0
    /\ \E d \in StartDays : start_time \in TimesOfDays(d, d)
    /\ end_time \in (start_time + 1) .. (start_time + MaxPagingSpan)
    /\ held \in SUBSET {[open_time |-> ToEpochMs(t), open |-> 1, high |-> 1, close |-> 1] :
                          t \in (start_time - 1) .. (end_time + 1)}
    /\ pc = "klines"
    /\ current_date = 0 /\ end_date = 0 /\ current_month = 0 /\ end_month = 0
    /\ downloaded_months = {} /\ missing_days = <<>> /\ all_bars = <<>>
    /\ archive_requests = <<>> /\ api_calls = <<>> /\ result = <<>>
    /\ failed_sources = {} /\ discarded = {} /\ appended = <<>>
    /\ k_state = "loop"
    /\ k_start_time = start_time /\ k_end_time = end_time
    /\ k_limit \in PageLimits
    /\ k_current_start = start_time
    /\ k_all_bars = <<>> /\ k_requests = <<>> /\ k_pages = <<>> /\ k_exit = "none"
    /\ NoWriterCall /\ NoDownloadData /\ NoArchiveCall /\ NoBacktest

\* the steps of a call no request of which fails
PagingNext ==
    \/ KlinesPage
    \/ KlinesNoProgress
    \/ KlinesEmptyPage
    \/ KlinesExhausted

\* one call of download_klines to a well-behaved endpoint, without error
SpecPaging == InitPaging /\ [][PagingNext]_vars

\* ------------------------------------------------------------- properties
Done == op = "range" /\ pc = "done"

\* C1: the output of download_range_from_archive holds no bar whose timestamp
\* is outside [start_time, end_time], and no such bar is ever accumulated
OutputWithinWindow ==
    /\ \A i \in 1..Len(all_bars) :
          start_time <= all_bars[i].timestamp /\ all_bars[i].timestamp <= end_time
    /\ Done => \A i \in 1..Len(result) :
          start_time <= result[i].timestamp /\ result[i].timestamp <= end_time

\* C1 happens: an archive file and the API call each delivered a bar outside
\* the window, one before it and one after it, and bars were returned
OutOfWindowBarsDelivered ==
    /\ Done /\ result # <<>>
    /\ \E x, y \in discarded : x.source = "api" /\ y.source \in {"daily", "monthly"}
    /\ \E x \in discarded : x.timestamp < start_time
    /\ \E x \in discarded : x.timestamp > end_time

\* C2: the output is sorted by non-decreasing timestamp and no two of its bars
\* have the same key (timestamp, open, close)
OutputSortedAndUnique ==
    Done =>
      /\ \A i \in 1..(Len(result) - 1) : result[i].timestamp <= result[i + 1].timestamp
      /\ \A i, j \in 1..Len(result) : i # j => BarKey(result[i]) # BarKey(result[j])

\* C2 happens: archives and the API delivered overlapping batches, accumulated
\* out of order, and a duplicate was dropped
OverlappingBatchesMerged ==
    /\ Done /\ api_calls # <<>>
    /\ Len(result) >= 2 /\ Len(result) < Len(all_bars)
    /\ \E i \in 1..(Len(all_bars) - 1) :
          all_bars[i].timestamp > all_bars[i + 1].timestamp

\* the days of the requested range
RequestedDays == DayOf(start_time) .. DayOf(end_time)

\* the days on which an archive supplied a bar, kept by the filter or not
\* (read when the archive pass ends: all_bars holds archive bars only)
DaysSupplied ==
    {DayOf(b.timestamp) : b \in Range(all_bars)}
      \cup {DayOf(x.timestamp) : x \in {y \in discarded : y.source # "api"}}

\* C3: when the archive pass ends, every day of the requested range on which no
\* archive supplied a bar is in the missing-days list
NoSilentGap ==
    ArchivePassOver =>
      \A d \in RequestedDays :
         d \notin DaysSupplied => Days(d) \in Range(missing_days)

\* the months the dates of [start_time, end_time] touch
MonthsTouched == {MonthKey(Days(d)) : d \in RequestedDays}

\* C4: for a daily+ interval every archive request is a monthly one, no month
\* is requested twice, and when the pass ends there is exactly one request per
\* month touched by the range
OneRequestPerMonth ==
    use_monthly_only =>
      /\ \A i \in 1..Len(archive_requests) : archive_requests[i].day = 0
      /\ \A i, j \in 1..Len(archive_requests) :
            i # j => archive_requests[i] # archive_requests[j]
      /\ {<<r.year, r.month>> : r \in Range(archive_requests)} \subseteq MonthsTouched
      /\ (ArchivePassOver \/ pc \in {"api_fallback", "done"}) =>
            /\ Len(archive_requests) = Cardinality(MonthsTouched)
            /\ {<<r.year, r.month>> : r \in Range(archive_requests)} = MonthsTouched

\* C4 happens: a 1d request over three months has ended with three requests
ThreeMonthsThreeRequests ==
    /\ Done /\ use_monthly_only
    /\ Cardinality(MonthsTouched) = 3
    /\ Len(archive_requests) = 3

\* C5: with a missing day and the fallback enabled, exactly one download_klines
\* call is made, over [earliest missing day, latest missing day + 1 day), and
\* of its bars only those within [start_time, end_time] are kept
OneFallbackCall ==
    ((pc \in {"api_fallback", "done"}) /\ missing_days # <<>> /\ fallback_to_api) =>
      /\ api_calls = <<[start_time |-> MinOf(missing_days),
                        end_time |-> MaxOf(missing_days) + Days(1)]>>
      /\ pc = "api_fallback" =>
            k_start_time = MinOf(missing_days)
              /\ k_end_time = MaxOf(missing_days) + Days(1)
      /\ \A i \in 1..Len(all_bars) :
            start_time <= all_bars[i].timestamp /\ all_bars[i].timestamp <= end_time

\* C5 happens: two missing days that are not contiguous, one call, and a bar of
\* the API left out because it is outside the window
NonContiguousDaysOneCall ==
    /\ Done /\ fallback_to_api
    /\ Len(missing_days) = 2
    /\ missing_days[2] - missing_days[1] > Days(1)
    /\ Len(api_calls) = 1
    /\ \E x \in discarded : x.source = "api"

\* C6: in the day-by-day mode the monthly archive of a month is requested at
\* most once in a reconciliation
MonthlyArchiveRequestedOnce ==
    ~ use_monthly_only =>
      \A i, j \in 1..Len(archive_requests) :
         (i # j /\ archive_requests[i].day = 0) =>
            archive_requests[i] # archive_requests[j]

\* the archive pass over the whole range is complete
PassComplete ==
    /\ pc \in {"archive_pass", "api_fallback", "done"}
    /\ IF use_monthly_only THEN ~ (current_month <= end_month)
                           ELSE ~ (current_date <= end_date)

\* C7: an API call or request is made only once the archive pass is complete,
\* and only if a day is missing and fallback_to_api is true
ApiOnlyAsPatch ==
    op = "range" =>
      /\ (api_calls # <<>> \/ k_requests # <<>> \/ k_state # "idle") =>
            PassComplete /\ missing_days # <<>> /\ fallback_to_api
      /\ pc = "archive_pass" => api_calls = <<>> /\ k_requests = <<>>
      /\ (Done /\ (missing_days = <<>> \/ ~ fallback_to_api)) => api_calls = <<>>

\* C7 happens: the archives gave bars and left a day missing, and the API is
\* being asked for it
ApiAskedAfterThePass ==
    /\ op = "range" /\ pc = "api_fallback" /\ k_requests # <<>>
    /\ all_bars # <<>> /\ archive_requests # <<>>

\* C8: no failure of a source leaves download_range_from_archive as an
\* exception, and the bars gathered are returned
SourceFailuresAreAbsorbed ==
    /\ pc # "raised"
    /\ (op = "range" /\ k_state = "raised") => pc = "api_fallback"
    /\ Done => {BarKey(b) : b \in Range(result)} = {BarKey(b) : b \in Range(all_bars)}

\* C8 happens: an archive request and the API call failed, and the bars of the
\* other requests were returned
FailuresAndBarsReturned ==
    /\ Done /\ failed_sources = {"archive", "api"}
    /\ result # <<>>

RECURSIVE BarsOfPages(_)
\* the bars of the pages received, in the order received
BarsOfPages(pages) ==
    IF pages = <<>> THEN <<>>
    ELSE PageBars(Head(pages)) \o BarsOfPages(Tail(pages))

\* C9: when page k answers with a non-200 status or a transport error,
\* download_klines returns, without raising, the bars of pages 1..k-1 in the
\* order received
ErrorReturnsThePagesSoFar ==
    k_exit \in {"bad_status", "client_error"} =>
      /\ k_state = "returned"
      /\ Len(k_pages) = Len(k_requests) - 1
      /\ k_all_bars = BarsOfPages(k_pages)

\* C9 happens: the third page failed with a transport error after two pages of
\* bars
ThirdPageFailed ==
    /\ op = "klines" /\ k_exit = "client_error"
    /\ Len(k_requests) = 3 /\ Len(k_all_bars) >= 2

\* C10: download_klines terminates; a step that stays in the loop strictly
\* increases current_start, and once current_start is not before end_time the
\* loop is left without another request
KlinesTerminates ==
    /\ <>(k_state \in {"returned", "raised"})
    /\ [][k_state' = "loop" => k_current_start' > k_current_start]_vars
    /\ [][(k_state = "loop" /\ ~ (k_current_start < k_end_time)) =>
             (k_state' = "returned" /\ k_requests' = k_requests)]_vars

\* C10 happens: the loop ran for several pages and ended because current_start
\* reached end_time
LoopRanToTheEnd ==
    /\ op = "klines" /\ k_state = "returned" /\ k_exit = "exhausted"
    /\ Len(k_requests) >= 2

\* ============================================================ lean_writer
\* The writer's bars carry naive datetimes counted in whole seconds since
\* 1970-01-01 00:00 (the open times of the klines of every interval are whole
\* seconds); text is a sequence of characters.

\* ----------------------------------------------------------------- bounds
\* most bars in one write_bars call
MaxWriterBars == 2

\* ------------------------------------------------------------------- text
SecondsPerDay == 86400

Digits == <<"0", "1", "2", "3", "4", "5", "6", "7", "8", "9">>
UpperCase == <<"A", "B", "C", "D", "E", "F", "G", "H", "I", "J", "K", "L", "M",
               "N", "O", "P", "Q", "R", "S", "T", "U", "V", "W", "X", "Y", "Z">>
LowerCase == <<"a", "b", "c", "d", "e", "f", "g", "h", "i", "j", "k", "l", "m",
               "n", "o", "p", "q", "r", "s", "t", "u", "v", "w", "x", "y", "z">>

\* str.lower() of one character
LowerChar(c) ==
    IF \E i \in 1..26 : UpperCase[i] = c
    THEN LowerCase[CHOOSE i \in 1..26 : UpperCase[i] = c]
    ELSE c

\* str.lower() left out
NotLowered(text) == text

\* str.lower()
Lower(text) == [i \in 1..Len(text) |-> LowerChar(text[i])]

RECURSIVE Decimal(_)
\* str() of a non-negative int
Decimal(n) ==
    IF n < 10 THEN <<Digits[n + 1]>>
    ELSE Decimal(n \div 10) \o <<Digits[(n % 10) + 1]>>

\* a number on at least w digits, as %Y, %m, %d, %H, %M print it
Padded(n, w) ==
    LET d == Decimal(n)
    IN  IF Len(d) >= w THEN d ELSE [i \in 1..(w - Len(d)) |-> "0"] \o d

\* repr() of a float of integral value, as csv.writer prints it
Repr(x) == Decimal(x) \o <<".", "0">>

\* the fields of a datetime
DateOf(t) == DateOfDay(t \div SecondsPerDay)
HourOf(t) == (t % SecondsPerDay) \div 3600
MinuteOf(t) == (t % 3600) \div 60
\* timestamp.replace(hour=0, minute=0, second=0, microsecond=0)
MidnightOf(t) == t - (t % SecondsPerDay)

\* strftime("%Y%m%d")
DateStr(t) ==
    Padded(DateOf(t).year, 4) \o Padded(DateOf(t).month, 2) \o Padded(DateOf(t).day, 2)

\* strftime with the hour of a 12-hour clock, %I for %H
TimeStr12(t) ==
    DateStr(t) \o <<" ">> \o Padded(IF HourOf(t) % 12 = 0 THEN 12 ELSE HourOf(t) % 12, 2)
               \o <<":">> \o Padded(MinuteOf(t), 2)

\* strftime("%Y%m%d %H:%M")
TimeStr(t) ==
    DateStr(t) \o <<" ">> \o Padded(HourOf(t), 2) \o <<":">> \o Padded(MinuteOf(t), 2)

\* int((timestamp - midnight).total_seconds() * 1000), exact on whole seconds
MsSinceMidnight(t) == (t - MidnightOf(t)) * 1000

\* ------------------------------------------------- Resolution.from_interval
\* the keys of KLINE_INTERVALS
KLINE_INTERVALS ==
    {"1s", "1m", "3m", "5m", "15m", "30m", "1h", "2h", "4h", "6h", "8h", "12h",
     "1d", "3d", "1w", "1M"}

\* the mapping with lower-case keys only: "1M" is lost to "1m"
mappingCaseless ==
    ("1s" :> "second") @@ ("1m" :> "minute") @@ ("3m" :> "minute")
      @@ ("5m" :> "minute") @@ ("15m" :> "minute") @@ ("30m" :> "minute")
      @@ ("1h" :> "hour") @@ ("2h" :> "hour") @@ ("4h" :> "hour")
      @@ ("6h" :> "hour") @@ ("8h" :> "hour") @@ ("12h" :> "hour")
      @@ ("1d" :> "daily") @@ ("3d" :> "daily") @@ ("1w" :> "daily")

\* mapping = {"1s": cls.SECOND, ..., "1M": cls.DAILY}
mapping ==
    ("1s" :> "second") @@ ("1m" :> "minute") @@ ("3m" :> "minute")
      @@ ("5m" :> "minute") @@ ("15m" :> "minute") @@ ("30m" :> "minute")
      @@ ("1h" :> "hour") @@ ("2h" :> "hour") @@ ("4h" :> "hour")
      @@ ("6h" :> "hour") @@ ("8h" :> "hour") @@ ("12h" :> "hour")
      @@ ("1d" :> "daily") @@ ("3d" :> "daily") @@ ("1w" :> "daily")
      @@ ("1M" :> "daily")

\* Resolution.from_interval: the member's value, or ValueError
from_interval(i) ==
    IF i \notin DOMAIN mapping
    THEN [raised |-> TRUE, error |-> "ValueError: Unsupported interval", value |-> "none"]
    ELSE [raised |-> FALSE, error |-> "none", value |-> mapping[i]]

\* strings that are no key of KLINE_INTERVALS
UnsupportedIntervals == {"1H", "2d", "1mo", ""}

\* --------------------------------------------------------------- write_bars
\* a bar as a CSV row: first field, then open, high, low, close, volume
CsvRow(first, bar) ==
    <<first, Repr(bar.open), Repr(bar.high), Repr(bar.low), Repr(bar.close),
      Repr(bar.volume)>>

\* _format_intraday_csv: rows by ascending timestamp, milliseconds since midnight
_format_intraday_csv(bars) ==
    LET sorted == SortByTimestamp(bars)
    IN  [i \in 1..Len(sorted) |->
            CsvRow(Decimal(MsSinceMidnight(sorted[i].timestamp)), sorted[i])]

\* _format_aggregated_csv: rows by ascending timestamp, YYYYMMDD HH:MM
_format_aggregated_csv(bars) ==
    LET sorted == SortByTimestamp(bars)
    IN  [i \in 1..Len(sorted) |-> CsvRow(TimeStr(sorted[i].timestamp), sorted[i])]

RECURSIVE DatesInOrder(_, _)
\* the keys of daily_bars, in the order of their first bar
DatesInOrder(bars, seen) ==
    IF bars = <<>> THEN <<>>
    ELSE LET d == DateStr(Head(bars).timestamp)
         IN  IF d \in seen THEN DatesInOrder(Tail(bars), seen)
             ELSE <<d>> \o DatesInOrder(Tail(bars), seen \cup {d})

\* daily_bars[date_str]
BarsOfDate(bars, d) == SelectSeq(bars, LAMBDA b : DateStr(b.timestamp) = d)

\* output_dir and the ZIP file's name; date is empty in the hour/daily layout,
\* where the file {symbol}_trade.zip lies in the directory of the resolution
ZipPath(asset_class, market, resolution, symbol, date) ==
    [asset_class |-> asset_class, market |-> market, resolution |-> resolution,
     symbol |-> symbol, date |-> date]

\* the directory made for a ZIP file, parents included
DirOf(path) ==
    [asset_class |-> path.asset_class, market |-> path.market,
     resolution |-> path.resolution,
     symbol |-> IF path.date = <<>> THEN <<>> ELSE path.symbol]

\* _write_intraday_bars: the ZIP files it writes, in order
_write_intraday_bars(bars, symbol, market, resolution, asset_class) ==
    LET dates == DatesInOrder(bars, {})
    IN  [i \in 1..Len(dates) |->
            [path |-> ZipPath(asset_class, market, resolution, symbol, dates[i]),
             csv_name |-> <<dates[i], symbol, resolution>>,
             rows |-> _format_intraday_csv(BarsOfDate(bars, dates[i]))]]

\* _write_aggregated_bars: the one ZIP file it writes
_write_aggregated_bars(bars, symbol, market, resolution, asset_class) ==
    <<[path |-> ZipPath(asset_class, market, resolution, symbol, <<>>),
       csv_name |-> <<symbol>>,
       rows |-> _format_aggregated_csv(bars)]>>

\* write_bars without its `if not bars: return []`
WriteBarsOfAnyList(bars, symbol, market, resolution, asset_class) ==
    IF resolution \in {"minute", "second"}
    THEN _write_intraday_bars(bars, Lower(symbol), Lower(market), resolution,
                              asset_class)
    ELSE _write_aggregated_bars(bars, Lower(symbol), Lower(market), resolution,
                                asset_class)

\* write_bars: the ZIP files it writes when no write fails, in order
write_bars(bars, symbol, market, resolution, asset_class) ==
    IF bars = <<>> THEN <<>>
    ELSE IF resolution \in {"minute", "second"}
    THEN _write_intraday_bars(bars, Lower(symbol), Lower(market), resolution,
                              asset_class)
    ELSE _write_aggregated_bars(bars, Lower(symbol), Lower(market), resolution,
                                asset_class)

\* the paths of ZIP files, in order
PathsOf(zips) == [i \in 1..Len(zips) |-> zips[i].path]

\* how the write of one ZIP file fails (OSError): in mkdir, in opening the
\* file, or in writing the member into the file just opened (and truncated)
WriteFailures == {"mkdir", "open", "write"}

\* a ZIP file opened for writing and left without its member
Truncated(zip) == [path |-> zip.path, csv_name |-> <<>>, rows |-> <<>>]

\* a write that adds the rows to those of the file already at the path
FilesMerged(fs, zips, n) ==
    {f \in fs : \A i \in 1..n : zips[i].path # f.path}
      \cup {[zips[i] EXCEPT !.rows =
                (IF \E f \in fs : f.path = zips[i].path
                 THEN (CHOOSE f \in fs : f.path = zips[i].path).rows
                 ELSE <<>>) \o @] : i \in 1..n}

\* the ZIP files of the data directory after the first n of `zips` are written
FilesAfter(fs, zips, n) ==
    {f \in fs : \A i \in 1..n : zips[i].path # f.path} \cup {zips[i] : i \in 1..n}

\* the effect of write_bars on the data directory and what it gives back, when
\* the write of file number fail_at fails in step `mode` (fail_at = 0: none does)
WriteOutcome(fs, ds, zips, fail_at, mode) ==
    IF fail_at = 0
    THEN [raised |-> FALSE,
          files |-> FilesAfter(fs, zips, Len(zips)),
          dirs |-> ds \cup {DirOf(zips[i].path) : i \in 1..Len(zips)},
          written_files |-> PathsOf(zips)]
    ELSE [raised |-> TRUE,
          files |-> IF mode = "write"
                    THEN {f \in FilesAfter(fs, zips, fail_at - 1) :
                                f.path # zips[fail_at].path}
                           \cup {Truncated(zips[fail_at])}
                    ELSE FilesAfter(fs, zips, fail_at - 1),
          dirs |-> ds \cup {DirOf(zips[i].path) :
                              i \in 1..(IF mode = "mkdir" THEN fail_at - 1 ELSE fail_at)},
          written_files |-> <<>>]

\* ------------------------------------------- the writer called on its own
\* symbols and markets as the caller may spell them
WriterSymbols == {<<"B", "T", "C">>, <<"e", "T", "h">>}
WriterMarkets == {<<"b", "i", "n", "a", "n", "c", "e">>,
                  <<"B", "i", "n", "a", "n", "c", "e">>}
AssetClasses == {"crypto", "cryptofuture"}

\* 2024-01-31 00:00:00 and 23:59:59, 2024-02-01 01:01:01
WriterTimes == {19753 * SecondsPerDay, 19753 * SecondsPerDay + 86399,
                19754 * SecondsPerDay + 3661}
WriterQuotes == {<<1, 1, 1>>, <<12, 12, 1>>}
WriterBars == {BarData(t, q[1], q[2], q[3]) : t \in WriterTimes, q \in WriterQuotes}

\* no download_range_from_archive or download_klines call under way
NoClientCall ==
    /\ op = "none" /\ interval = "none" /\ start_time = 0 /\ end_time = 0
    /\ fallback_to_api = FALSE /\ utc_offset = 0 /\ held = {} /\ pc = "idle"
    /\ current_date = 0 /\ end_date = 0 /\ current_month = 0 /\ end_month = 0
    /\ downloaded_months = {} /\ missing_days = <<>> /\ all_bars = <<>>
    /\ archive_requests = <<>> /\ api_calls = <<>> /\ result = <<>>
    /\ failed_sources = {} /\ discarded = {} /\ appended = <<>>
    /\ NoKlinesCall

\* bars of an interval about to be written, as lines 113-124 of download_data
\* do: Resolution.from_interval(interval), then writer.write_bars(...)
InitWriter ==
    /\ NoClientCall /\ NoDownloadData /\ NoArchiveCall /\ NoBacktest
    /\ files = {} /\ dirs = {}
    /\ w_pc = "called"
    /\ w_bars \in SeqsUpTo(WriterBars, MaxWriterBars)
    /\ w_symbol \in WriterSymbols
    /\ w_market \in WriterMarkets
    /\ w_interval \in KLINE_INTERVALS \cup UnsupportedIntervals
    /\ w_asset_class \in AssetClasses
    /\ w_resolution = "none" /\ w_fail_at = 0 /\ w_written = <<>> /\ w_before = {}

\* resolution = Resolution.from_interval(interval)
ResolveInterval ==
    /\ w_pc = "called"
    /\ LET r == from_interval(w_interval)
       IN  /\ w_resolution' = r.value
           /\ w_pc' = IF r.raised THEN "raised" ELSE "resolved"
    /\ UNCHANGED <<input_vars, pc, log_vars, range_vars, klines_vars, archive_vars,
                   backtest_vars, disk_vars,
                   download_vars, w_bars, w_symbol, w_market, w_interval,
                   w_asset_class, w_fail_at, w_written, w_before>>

\* writer.write_bars(bars, symbol, market, resolution, asset_class)
WriteBars ==
    /\ w_pc = "resolved"
    /\ LET zips == write_bars(w_bars, w_symbol, w_market, w_resolution, w_asset_class)
       IN  \E k \in 0..Len(zips), m \in WriteFailures :
              LET out == WriteOutcome(files, dirs, zips, k, m)
              IN  /\ (k = 0 => m = "mkdir")
                  /\ files' = out.files
                  /\ dirs' = out.dirs
                  /\ w_written' = out.written_files
                  /\ w_fail_at' = k
                  /\ w_before' = files
                  /\ w_pc' = IF out.raised THEN "raised" ELSE "returned"
    /\ UNCHANGED <<input_vars, pc, log_vars, range_vars, klines_vars, archive_vars,
                   backtest_vars,
                   download_vars, w_bars, w_symbol, w_market, w_interval,
                   w_asset_class, w_resolution>>

WriterNext ==
    \/ ResolveInterval
    \/ WriteBars

\* one interval resolved and one write_bars call
SpecWriter == InitWriter /\ [][WriterNext]_vars

\* ========================================================== download_data
\* exchange.lower() != "binance"
UnsupportedExchange(exchange) == Lower(exchange) # <<"b", "i", "n", "a", "n", "c", "e">>

\* the range check with >= for >
InvalidRangeStrict(start, end) == start >= end

\* start_time > end_time
InvalidRange(start, end) == start > end

\* use_futures = account_type in ("usdt_future", "coin_future")
use_futures(account_type) == account_type \in {"usdt_future", "coin_future"}

\* asset_class = AssetClass.CRYPTO_FUTURE if use_futures else AssetClass.CRYPTO
asset_class(account_type) ==
    IF use_futures(account_type) THEN "cryptofuture" ELSE "crypto"

\* Binance API endpoints, lines 23-25
BINANCE_API_BASE == "https://api.binance.com"
BINANCE_FUTURES_API_BASE == "https://fapi.binance.com"
BINANCE_DATA_ARCHIVE == "https://data.binance.vision"

\* BinanceClient.__init__: the fields the requests are built from
BinanceClient(futures) ==
    [_use_futures |-> futures,
     _api_base |-> IF futures THEN BINANCE_FUTURES_API_BASE ELSE BINANCE_API_BASE,
     _klines_endpoint |-> IF futures THEN "/fapi/v1/klines" ELSE "/api/v3/klines"]

\* url = f"{self._api_base}{self._klines_endpoint}"
klines_url(client) == <<client._api_base, client._klines_endpoint>>

\* a base path that is the spot one whatever the client
base_path_of_spot(client, day) ==
    IF day THEN "/data/spot/daily/klines" ELSE "/data/spot/monthly/klines"

\* base_path of download_from_archive, of a daily or a monthly file
base_path(client, day) ==
    IF client._use_futures
    THEN (IF day THEN "/data/futures/um/daily/klines"
          ELSE "/data/futures/um/monthly/klines")
    ELSE (IF day THEN "/data/spot/daily/klines" ELSE "/data/spot/monthly/klines")

\* url = f"{BINANCE_DATA_ARCHIVE}{base_path}/..."
archive_url(client, day) == <<BINANCE_DATA_ARCHIVE, base_path(client, day)>>

\* where the requests of one download of the client go: the REST endpoint, and
\* with the archive the daily files (sub-daily intervals) and the monthly files
RequestUrls(client, with_archive, i) ==
    IF with_archive
    THEN {archive_url(client, FALSE), klines_url(client)}
           \cup (IF i \in {"1d", "3d", "1w", "1M"} THEN {}
                 ELSE {archive_url(client, TRUE)})
    ELSE {klines_url(client)}

\* the pairs of download_binance_data: for symbol in symbols: for interval in intervals
NPairs == Len(d_symbols) * Len(d_intervals)
PairSymbol(i) == d_symbols[((i - 1) \div Len(d_intervals)) + 1]
PairInterval(i) == d_intervals[((i - 1) % Len(d_intervals)) + 1]

\* the transient failures of a source: network error, timeout, 404 or another
\* bad status, an archive that is no ZIP file, a body that is not JSON, a
\* malformed row of a REST page
SourceFailures ==
    {"client_error", "timeout", "bad_status", "bad_zip", "bad_json", "bad_kline"}

\* the bars a pair's download may give: none, one at the start, or one at the
\* start and one at the end of the range
PairBars(start, end) ==
    {<<>>, <<BarData(start, 1, 1, 1)>>}
      \cup (IF start < end
            THEN {<<BarData(start, 1, 1, 1), BarData(end, 1, 1, 1)>>} ELSE {})

\* the bars left by a download in which a source failed: no or partial data
PartialBars(start, end) == {<<>>, <<BarData(start, 1, 1, 1)>>}

\* client.download_range_from_archive as download_binance_data calls it: the
\* KeyError of KLINE_INTERVALS[interval] leaves it before any request; every
\* failure of a source is caught inside it
RangeCallOutcomes(i, start, end) ==
    IF i \notin KLINE_INTERVALS
    THEN {[raised |-> TRUE, error |-> "KeyError", failure |-> "none",
           network |-> FALSE, bars |-> <<>>]}
    ELSE {[raised |-> FALSE, error |-> "none", failure |-> "none",
           network |-> TRUE, bars |-> b] : b \in PairBars(start, end)}
           \cup {[raised |-> FALSE, error |-> "none", failure |-> f,
                  network |-> TRUE, bars |-> b] :
                    f \in SourceFailures, b \in PartialBars(start, end)}

\* client.download_klines as download_binance_data calls it: ValueError for an
\* interval that is no key; no request when the loop is not entered; a bad
\* status and aiohttp.ClientError end the loop, any other exception leaves it
KlinesCallOutcomes(i, start, end) ==
    IF i \notin KLINE_INTERVALS
    THEN {[raised |-> TRUE, error |-> "ValueError: Invalid interval",
           failure |-> "none", network |-> FALSE, bars |-> <<>>]}
    ELSE IF ~ (start < end)
    THEN {[raised |-> FALSE, error |-> "none", failure |-> "none",
           network |-> FALSE, bars |-> <<>>]}
    ELSE {[raised |-> FALSE, error |-> "none", failure |-> "none",
           network |-> TRUE, bars |-> b] : b \in PairBars(start, end)}
           \cup {[raised |-> FALSE, error |-> "none", failure |-> f,
                  network |-> TRUE, bars |-> b] :
                    f \in (SourceFailures \ {"bad_zip"}) \ UncaughtKlinesFailures,
                    b \in PartialBars(start, end)}
           \cup {[raised |-> TRUE, error |-> f, failure |-> f,
                  network |-> TRUE, bars |-> <<>>] : f \in UncaughtKlinesFailures}

\* BinanceClient.__aenter__: self._session = aiohttp.ClientSession()
SessionEntered(log) == [log EXCEPT !.opened = @ + 1]

\* __aexit__ that leaves the session as it is
AexitLeavingOpen(session) == [session |-> session, closed |-> 0]

\* BinanceClient.__aexit__: if self._session: close it
__aexit__(session) ==
    IF session = "open" THEN [session |-> "closed", closed |-> 1]
    ELSE [session |-> session, closed |-> 0]

\* if not bars, with the test left out
SkippedNever(bars) == FALSE

\* if not bars: continue
Skipped(bars) == bars = <<>>

\* ------------------------------------------------ download_data, the steps
\* the lists of symbols of the invocations modelled
DownloadSymbols == {<< <<"B", "T", "C">> >>, << <<"B", "T", "C">>, <<"e", "T", "h">> >>}
DownloadIntervals == {"1m", "1h", "2d"}
Exchanges == {<<"b", "i", "n", "a", "n", "c", "e">>,
              <<"B", "i", "n", "a", "n", "c", "e">>,
              <<"k", "r", "a", "k", "e", "n">>}
AccountTypes == {"spot", "usdt_future", "coin_future", "margin"}

\* most intervals of one invocation
MaxIntervals == 2

\* lists without repetition, of 1 to n elements of S
ListsOf(S, n) ==
    {l \in SeqsUpTo(S, n) : l # <<>> /\ \A a, b \in 1..Len(l) : a # b => l[a] # l[b]}

\* download_data called: start_date and end_date are midnights, from
\* 2024-01-30 to 2024-02-01
InitDownload ==
    /\ NoClientCall /\ NoArchiveCall /\ NoBacktest
    /\ files = {} /\ dirs = {}
    /\ w_pc = "idle" /\ w_bars = <<>> /\ w_symbol = <<>> /\ w_market = <<>>
    /\ w_interval = "none" /\ w_asset_class = "none" /\ w_resolution = "none"
    /\ w_fail_at = 0 /\ w_written = <<>> /\ w_before = {}
    /\ d_pc = "called"
    /\ d_symbols \in DownloadSymbols
    /\ d_intervals \in ListsOf(DownloadIntervals, MaxIntervals)
    /\ d_exchange \in Exchanges
    /\ d_start = 19753 * SecondsPerDay
    /\ d_end \in {19752 * SecondsPerDay, 19753 * SecondsPerDay, 19754 * SecondsPerDay}
    /\ d_use_archive \in BOOLEAN
    /\ d_account_type \in AccountTypes
    /\ d_pair = 0 /\ d_session = "none"
    /\ d_result = <<>> /\ d_error = "none" /\ d_bars = <<>> /\ d_failure = "none"
    /\ d_log = [opened |-> 0, closed |-> 0, requests |-> 0, write_calls |-> 0,
                written |-> [s \in Range(d_symbols) |-> <<>>], endpoints |-> {}]

\* lines 59-74: the exchange or the range is refused
DownloadDataRefused ==
    /\ d_pc = "called"
    /\ UnsupportedExchange(d_exchange) \/ InvalidRange(d_start, d_end)
    /\ d_pc' = "raised"
    /\ d_error' = IF UnsupportedExchange(d_exchange)
                  THEN "ValueError: exchange" ELSE "ValueError: range"
    /\ UNCHANGED <<input_vars, pc, log_vars, range_vars, klines_vars, archive_vars,
                   backtest_vars, disk_vars,
                   writer_vars, d_symbols, d_intervals, d_exchange, d_start,
                   d_end, d_use_archive, d_account_type, d_pair, d_session,
                   d_result, d_bars, d_failure, d_log>>

\* lines 76-99 and 490: the result has a list per symbol, the generator is
\* entered and the client's session opened
DownloadDataAccepted ==
    /\ d_pc = "called"
    /\ ~ UnsupportedExchange(d_exchange) /\ ~ InvalidRange(d_start, d_end)
    /\ d_result' = [s \in Range(d_symbols) |-> <<>>]
    /\ d_session' = "open"
    /\ d_log' = SessionEntered(d_log)
    /\ d_pair' = 1
    /\ d_pc' = "pairs"
    /\ UNCHANGED <<input_vars, pc, log_vars, range_vars, klines_vars, archive_vars,
                   backtest_vars, disk_vars,
                   writer_vars, d_symbols, d_intervals, d_exchange, d_start,
                   d_end, d_use_archive, d_account_type, d_error, d_bars,
                   d_failure>>

\* lines 491-510: the download of the next pair; it yields the bars, or its
\* exception leaves the generator (the session is closed) and download_data
PairDownload ==
    /\ d_pc = "pairs" /\ d_pair <= NPairs
    /\ \E out \in (IF d_use_archive
                   THEN RangeCallOutcomes(PairInterval(d_pair), d_start, d_end)
                   ELSE KlinesCallOutcomes(PairInterval(d_pair), d_start, d_end)) :
         LET \* _ensure_session: a session is made if there is none
             made == IF d_session = "open" THEN 0 ELSE 1
             exit == __aexit__("open")
             client == BinanceClient(use_futures(d_account_type))
             urls == IF out.network
                     THEN RequestUrls(client, d_use_archive, PairInterval(d_pair))
                     ELSE {}
         IN  /\ d_failure' = out.failure
             /\ d_bars' = out.bars
             /\ IF out.raised
                THEN /\ d_pc' = "raised"
                     /\ d_error' = out.error
                     /\ d_session' = exit.session
                     /\ d_log' = [d_log EXCEPT
                                    !.opened = @ + made,
                                    !.requests = @ + (IF out.network THEN 1 ELSE 0),
                                    !.endpoints = @ \cup urls,
                                    !.closed = @ + exit.closed]
                ELSE /\ d_pc' = "yielded"
                     /\ d_error' = d_error
                     /\ d_session' = "open"
                     /\ d_log' = [d_log EXCEPT
                                    !.opened = @ + made,
                                    !.requests = @ + (IF out.network THEN 1 ELSE 0),
                                    !.endpoints = @ \cup urls]
    /\ UNCHANGED <<input_vars, pc, log_vars, range_vars, klines_vars, archive_vars,
                   backtest_vars, disk_vars,
                   writer_vars, d_symbols, d_intervals, d_exchange, d_start,
                   d_end, d_use_archive, d_account_type, d_pair, d_result>>

\* lines 107-109: no bars, the pair is skipped
PairSkipped ==
    /\ d_pc = "yielded"
    /\ Skipped(d_bars)
    /\ d_pair' = d_pair + 1
    /\ d_pc' = "pairs"
    /\ d_bars' = <<>> /\ d_failure' = "none"
    /\ UNCHANGED <<input_vars, pc, log_vars, range_vars, klines_vars, archive_vars,
                   backtest_vars, disk_vars,
                   writer_vars, d_symbols, d_intervals, d_exchange, d_start,
                   d_end, d_use_archive, d_account_type, d_session, d_result,
                   d_error, d_log>>

\* lines 111-131: the bars are written; the paths are added to the result of
\* the symbol, or the exception of the writer is caught and logged
PairWritten ==
    /\ d_pc = "yielded"
    /\ ~ Skipped(d_bars)
    /\ LET symbol == PairSymbol(d_pair)
           r == from_interval(PairInterval(d_pair))
           zips == IF r.raised THEN <<>>
                   ELSE write_bars(d_bars, symbol, Lower(d_exchange), r.value,
                                   asset_class(d_account_type))
       IN  \E k \in 0..Len(zips), m \in {"open"} :
              LET out == WriteOutcome(files, dirs, zips, k, m)
                  done == IF k = 0 THEN Len(zips) ELSE k - 1
              IN  /\ files' = out.files
                  /\ dirs' = out.dirs
                  /\ d_result' = IF r.raised \/ out.raised THEN d_result
                                 ELSE [d_result EXCEPT
                                         ![symbol] = @ \o out.written_files]
                  /\ d_log' = [d_log EXCEPT
                                 !.write_calls = @ + (IF r.raised THEN 0 ELSE 1),
                                 !.written[symbol] =
                                     @ \o SubSeq(PathsOf(zips), 1, done)]
    /\ d_pair' = d_pair + 1
    /\ d_pc' = "pairs"
    /\ d_bars' = <<>> /\ d_failure' = "none"
    /\ UNCHANGED <<input_vars, pc, log_vars, range_vars, klines_vars, archive_vars,
                   backtest_vars,
                   writer_vars, d_symbols, d_intervals, d_exchange, d_start,
                   d_end, d_use_archive, d_account_type, d_session, d_error>>

\* the generator is exhausted: the session is closed, lines 490 and 133
DownloadDataReturns ==
    /\ d_pc = "pairs" /\ d_pair > NPairs
    /\ LET exit == __aexit__(d_session)
       IN  /\ d_session' = exit.session
           /\ d_log' = [d_log EXCEPT !.closed = @ + exit.closed]
    /\ d_pc' = "returned"
    /\ UNCHANGED <<input_vars, pc, log_vars, range_vars, klines_vars, archive_vars,
                   backtest_vars, disk_vars,
                   writer_vars, d_symbols, d_intervals, d_exchange, d_start,
                   d_end, d_use_archive, d_account_type, d_pair, d_result,
                   d_error, d_bars, d_failure>>

DownloadNext ==
    \/ DownloadDataRefused
    \/ DownloadDataAccepted
    \/ PairDownload
    \/ PairSkipped
    \/ PairWritten
    \/ DownloadDataReturns

\* one invocation of download_data
SpecDownload == InitDownload /\ [][DownloadNext]_vars

\* ------------------------------------------- properties of download_data
\* the errors of the checks of lines 59-74
ValidationErrors == {"ValueError: exchange", "ValueError: range"}
\* the errors an interval that is no key of KLINE_INTERVALS ends in
IntervalErrors == {"KeyError", "ValueError: Invalid interval"}

\* C11: a transient failure of a source during a pair's download does not leave
\* download_data as an exception: the pair's bars (none or some) are yielded and
\* the invocation goes on
TransientFailuresRecovered ==
    d_failure \in SourceFailures => d_pc = "yielded"

\* C12: when download_data returns, every pair was attempted, the result has a
\* key per requested symbol and nothing else, and the list of a symbol holds
\* exactly the paths of the ZIP files written for it
EveryPairAttemptedAndListed ==
    d_pc = "returned" =>
      /\ d_pair = NPairs + 1
      /\ DOMAIN d_result = Range(d_symbols)
      /\ \A sym \in Range(d_symbols) : d_result[sym] = d_log.written[sym]

\* C13: a pair that yielded no bars is skipped: no write_bars call, no file or
\* directory made or changed, nothing added to the result
ZeroBarsPairSkipped ==
    [][(d_pc = "yielded" /\ d_bars = <<>>) =>
          /\ files' = files /\ dirs' = dirs
          /\ d_result' = d_result
          /\ d_log'.write_calls = d_log.write_calls
          /\ d_log'.written = d_log.written]_vars

\* C13 happens: of two pairs downloaded, one was skipped and one written
OnePairSkippedOneWritten ==
    /\ d_pc = "returned" /\ NPairs = 2
    /\ d_log.requests = 2 /\ d_log.write_calls = 1
    /\ files # {}

\* C14: an unsupported interval ends download_data before any network request
\* and before any file is written
UnsupportedIntervalFailsFast ==
    (d_pc = "raised" /\ d_error \in IntervalErrors) =>
       d_log.requests = 0 /\ files = {} /\ dirs = {}

\* C15: a start after the end, or an exchange other than binance, is refused
\* before a session is opened, a request made or a file written; a range with
\* start = end is accepted
BadRangeOrExchangeRefused ==
    /\ (d_pc # "called"
          /\ (d_start > d_end \/ Lower(d_exchange) # <<"b", "i", "n", "a", "n", "c", "e">>))
       => /\ d_pc = "raised" /\ d_error \in ValidationErrors
          /\ d_session = "none" /\ d_log.opened = 0 /\ d_log.requests = 0
          /\ files = {} /\ dirs = {}
    /\ (d_pc # "called" /\ d_start = d_end
          /\ Lower(d_exchange) = <<"b", "i", "n", "a", "n", "c", "e">>)
       => d_error \notin ValidationErrors /\ d_log.opened = 1

\* C15 happens: a range whose start is after its end was refused
RangeRefused ==
    d_pc = "raised" /\ d_error = "ValueError: range" /\ d_start > d_end

\* C16: one session is opened, before the first pair; it is open while the
\* pairs are processed, every request is made with it, and it is closed once
\* when download_data returns or a download raises
OneSessionOpenedAndClosed ==
    /\ [](d_pc # "idle" =>
            /\ d_log.opened <= 1
            /\ (d_pc \in {"pairs", "yielded"} =>
                  d_session = "open" /\ d_log.opened = 1 /\ d_log.closed = 0)
            /\ (d_pc \in {"returned", "raised"} =>
                  d_session # "open" /\ d_log.closed = d_log.opened)
            /\ (d_pc = "returned" \/ (d_pc = "raised" /\ d_error \notin ValidationErrors)
                  => d_log.opened = 1 /\ d_log.closed = 1))
    /\ [][(d_pc # "idle" /\ d_log'.requests > d_log.requests) =>
             d_session = "open" /\ d_log'.opened = d_log.opened]_vars

\* C16 happens: the download of the second pair raised after the first pair
\* was written, and the session is closed
SecondPairRaisedSessionClosed ==
    /\ d_pc = "raised" /\ d_error \in UncaughtKlinesFailures
    /\ d_pair = 2 /\ files # {}
    /\ d_session = "closed"

\* ----------------------------------------------- properties of the writer
\* C17: Resolution.from_interval gives SECOND for 1s, MINUTE for the minute
\* intervals, HOUR for 1h..12h, DAILY for 1d, 3d, 1w, 1M, these being the 16
\* keys of KLINE_INTERVALS, and fails with an unsupported-interval ValueError
\* for any other string
FromIntervalTotal ==
    /\ Cardinality(KLINE_INTERVALS) = 16
    /\ w_pc \in {"resolved", "returned", "raised"} =>
         IF w_interval \in KLINE_INTERVALS
         THEN /\ w_interval = "1s" => w_resolution = "second"
              /\ w_interval \in {"1m", "3m", "5m", "15m", "30m"} => w_resolution = "minute"
              /\ w_interval \in {"1h", "2h", "4h", "6h", "8h", "12h"} => w_resolution = "hour"
              /\ w_interval \in {"1d", "3d", "1w", "1M"} => w_resolution = "daily"
              /\ w_resolution \in {"second", "minute", "hour", "daily"}
              /\ ~ from_interval(w_interval).raised
         ELSE /\ w_pc = "raised" /\ w_resolution = "none"
              /\ from_interval(w_interval).error = "ValueError: Unsupported interval"

\* C17 happens: the month interval 1M, which differs from 1m by case only, was
\* resolved
MonthIntervalResolved ==
    w_pc = "resolved" /\ w_interval = "1M" /\ w_resolution = "daily"

\* C18: write_bars of an empty list returns an empty list and makes no file
\* and no directory
EmptyBarsWriteNothing ==
    (w_resolution # "none" /\ w_pc \in {"returned", "raised"} /\ w_bars = <<>>) =>
       w_pc = "returned" /\ w_written = <<>> /\ files = {} /\ dirs = {}

\* C18 happens: write_bars returned from a call with no bars, for the daily
\* resolution of a future
EmptyListWritten ==
    /\ w_pc = "returned" /\ w_bars = <<>>
    /\ w_resolution = "daily" /\ w_asset_class = "cryptofuture"

\* b is the lower-case letter of a, or a itself when a is no letter
SameLetterLowered(a, b) ==
    \/ \E k \in 1..26 : b = LowerCase[k] /\ a \in {LowerCase[k], UpperCase[k]}
    \/ a = b /\ \A k \in 1..26 : a # LowerCase[k] /\ a # UpperCase[k]

LoweredText(text, lowered) ==
    /\ Len(lowered) = Len(text)
    /\ \A i \in 1..Len(text) : SameLetterLowered(text[i], lowered[i])

\* C19: for a non-empty list write_bars returns, in the hour and daily
\* resolutions, the one path {asset_class}/{market}/{resolution}/{symbol}_trade.zip
\* and, in the second and minute resolutions, one path
\* {asset_class}/{market}/{resolution}/{symbol}/{YYYYMMDD}_trade.zip per calendar
\* date of the bars; symbol and market are in lower case in every path
PathsFollowTheLayout ==
    (w_pc = "returned" /\ w_bars # <<>>) =>
       LET dates == {DateStr(w_bars[i].timestamp) : i \in 1..Len(w_bars)}
       IN  /\ \A i \in 1..Len(w_written) :
                 /\ w_written[i].asset_class = w_asset_class
                 /\ w_written[i].resolution = w_resolution
                 /\ LoweredText(w_symbol, w_written[i].symbol)
                 /\ LoweredText(w_market, w_written[i].market)
           /\ IF w_resolution \in {"hour", "daily"}
              THEN Len(w_written) = 1 /\ w_written[1].date = <<>>
              ELSE /\ w_resolution \in {"second", "minute"}
                   /\ Len(w_written) = Cardinality(dates)
                   /\ {w_written[i].date : i \in 1..Len(w_written)} = dates
           /\ \A i \in 1..Len(w_written) : \E f \in files : f.path = w_written[i]

\* C19 happens: minute bars of two dates were written for a symbol and a market
\* spelt with capitals
TwoDatesTwoFiles ==
    /\ w_pc = "returned" /\ w_resolution = "minute"
    /\ Len(w_written) = 2
    /\ w_symbol = <<"B", "T", "C">> /\ w_market[1] = "B"

\* ------------------------------------------------------- reading back
RECURSIVE ParseDecimal(_)
\* int() of a string of digits
ParseDecimal(text) ==
    IF text = <<>> THEN 0
    ELSE 10 * ParseDecimal(SubSeq(text, 1, Len(text) - 1))
           + ((CHOOSE k \in 1..10 : Digits[k] = text[Len(text)]) - 1)

\* float() of the repr of a float of integral value
ParseRepr(text) == ParseDecimal(SubSeq(text, 1, Len(text) - 2))

\* midnight of the date YYYYMMDD, in seconds
ParseDate(text) ==
    LET date == [year |-> ParseDecimal(SubSeq(text, 1, 4)),
                 month |-> ParseDecimal(SubSeq(text, 5, 6)),
                 day |-> ParseDecimal(SubSeq(text, 7, 8))]
    IN  (CHOOSE d \in 19723..20500 : DateOfDay(d) = date) * SecondsPerDay

\* the bar of a row; its timestamp is the date of the file name plus the
\* milliseconds since midnight in the second/minute layout, and the
\* YYYYMMDD HH:MM of the row in the hour/daily layout
ReadRow(zip, row) ==
    [timestamp |->
        IF zip.path.date # <<>>
        THEN ParseDate(zip.path.date) + (ParseDecimal(row[1]) \div 1000)
        ELSE ParseDate(SubSeq(row[1], 1, 8))
               + 3600 * ParseDecimal(SubSeq(row[1], 10, 11))
               + 60 * ParseDecimal(SubSeq(row[1], 13, 14)),
     open |-> ParseRepr(row[2]), high |-> ParseRepr(row[3]),
     low |-> ParseRepr(row[4]), close |-> ParseRepr(row[5]),
     volume |-> ParseRepr(row[6])]

\* a bar with its timestamp to the resolution of the layout: the second in the
\* second/minute layout, the minute in the hour/daily layout
AsWritten(bar, resolution) ==
    IF resolution \in {"second", "minute"} THEN bar
    ELSE [bar EXCEPT !.timestamp = @ - (@ % 60)]

OutputStrictlyIncreasing ==
    Done => \A i \in 1..(Len(result) - 1) :
               result[i].timestamp < result[i + 1].timestamp

\* the batches taken from a monthly archive as the fallback of a day
MonthlyFallbackBatches ==
    {i \in 1..Len(appended) :
        op = "range" /\ ~ use_monthly_only /\ appended[i].source = "monthly"}

\* C25 as stated: the bars taken from a monthly archive as the fallback for a
\* day without a daily file are all timestamped on that day
MonthlyFallbackFilteredToTheDay ==
    \A i \in MonthlyFallbackBatches :
       \A j \in 1..Len(appended[i].bars) :
          DayOf(appended[i].bars[j].timestamp) = DayOf(appended[i].for)

\* C25, amended: the bars taken from a monthly archive as the fallback for a
\* day without a daily file are filtered to the requested window
\* [start_time, end_time], not to the day: every one of them lies in the window
MonthlyFallbackFilteredToTheWindow ==
    \A i \in MonthlyFallbackBatches :
       \A j \in 1..Len(appended[i].bars) :
          /\ start_time <= appended[i].bars[j].timestamp
          /\ appended[i].bars[j].timestamp <= end_time

\* C25 happens: the monthly file fetched for a day held a bar before the
\* window, which was dropped, and a bar of a later day, which was kept
MonthlyFallbackKeptALaterDay ==
    /\ \E i \in MonthlyFallbackBatches :
          \E j \in 1..Len(appended[i].bars) :
             DayOf(appended[i].bars[j].timestamp) > DayOf(appended[i].for)
    /\ \E x \in discarded : x.source = "monthly"

\* the months requested so far whose archive returned no bars
EmptyMonths ==
    {<<archive_requests[i].year, archive_requests[i].month>> :
        i \in 1..Len(archive_requests)} \ downloaded_months

\* C26: in the monthly-only mode the missing-days list holds exactly the days
\* of the requested range [start date, end date] that lie in a month whose
\* archive request returned no bars, each once, as midnights; a month whose
\* archive returned bars adds no day
MissingDaysOfEmptyMonths ==
    (op = "range" /\ use_monthly_only /\ pc # "raised") =>
       LET expected == {d \in RequestedDays : MonthKey(Days(d)) \in EmptyMonths}
       IN  /\ {DayOf(missing_days[i]) : i \in 1..Len(missing_days)} = expected
           /\ Len(missing_days) = Cardinality(expected)
           /\ \A i \in 1..Len(missing_days) :
                 missing_days[i] = Days(DayOf(missing_days[i]))

\* C26 happens: of the three months of a range from 2024-01-31 to 2024-03-01
\* the first and the last had no archive and the second had bars
FirstAndLastMonthEmpty ==
    /\ op = "range" /\ use_monthly_only /\ ArchivePassOver
    /\ Len(archive_requests) = 3
    /\ downloaded_months = {<<2024, 2>>}
    /\ Len(missing_days) = 2

RECURSIVE BarsOfBatches(_)
\* the bars of the batches, in the order they were accumulated
BarsOfBatches(batches) ==
    IF batches = <<>> THEN <<>>
    ELSE Head(batches).bars \o BarsOfBatches(Tail(batches))

\* C28: the bar kept for a key (timestamp, open, close) is the first bar of
\* that key in the order of accumulation (the archive batches in the order
\* they were fetched, the API fallback batch last), every accumulated key is in
\* the output and later bars of a key are discarded
FirstSeenBarKept ==
    Done =>
      /\ all_bars = BarsOfBatches(appended)
      /\ \A i \in 1..(Len(appended) - 1) : appended[i].source # "api"
      /\ \A i \in 1..Len(result) :
            \E k \in 1..Len(all_bars) :
               /\ all_bars[k] = result[i]
               /\ \A j \in 1..(k - 1) : BarKey(all_bars[j]) # BarKey(result[i])
      /\ \A k \in 1..Len(all_bars) :
            Cardinality({i \in 1..Len(result) : BarKey(result[i]) = BarKey(all_bars[k])})
              = 1

\* C28 happens: an archive file and then the API fallback delivered bars of
\* one key with different highs, and another archive bar came between them
ArchiveAndApiSameKey ==
    /\ Done /\ Len(appended) >= 3
    /\ appended[Len(appended)].source = "api"
    /\ \E i \in 1..(Len(appended) - 2) :
          \E a \in Range(appended[i].bars), b \in Range(appended[Len(appended)].bars) :
             BarKey(a) = BarKey(b) /\ a.high # b.high

\* --------------------------------------- properties of the paging requests
\* C27: every page request of a download_klines call carries the requested
\* end as endTime and the same limit; the first carries the requested start as
\* startTime, each later one the open time of the last kline of the page
\* before plus 1 ms, and the startTime values are strictly increasing
PageRequestsAdvance ==
    op = "klines" =>
      /\ \A i \in 1..Len(k_requests) :
            /\ k_requests[i].endTime = ToEpochMs(k_end_time)
            /\ k_requests[i].limit = k_limit
      /\ k_requests # <<>> => k_requests[1].startTime = ToEpochMs(k_start_time)
      /\ \A i \in 2..Len(k_requests) :
            /\ k_requests[i].startTime
                 = k_pages[i - 1][Len(k_pages[i - 1])].open_time + 1
            /\ k_requests[i - 1].startTime < k_requests[i].startTime

\* the bars a well-behaved endpoint holds from start up to end, ascending
HeldInWindow ==
    PageBars(Ascending({k \in held : /\ ToEpochMs(k_start_time) <= k.open_time
                                     /\ k.open_time <= ToEpochMs(k_end_time)}))

\* C30: a download_klines call to a well-behaved endpoint, no request failing,
\* returns every bar the endpoint holds from start up to end, exactly once and
\* in ascending order, whatever the page limit
PaginationComplete ==
    (op = "paging" /\ k_state = "returned") => k_all_bars = HeldInWindow

\* --------------------------------- download_from_archive, the row loop
\* most rows of one frame
MaxFrameRows == 3

\* timestamp_ms / 1000 of the rows modelled, as whole seconds and the
\* milliseconds over them: the two ends of the accepted range, the instants
\* just outside them, and 2024-01-31 00:00:00
FrameTimes ==
    {[s |-> x, ms |-> 0] :
        x \in {MinArchiveSecond - 1, MinArchiveSecond, 19753 * SecondsPerDay,
               MaxArchiveSecond, MaxArchiveSecond + 1}}
      \cup {[s |-> MinArchiveSecond - 1, ms |-> 999], [s |-> MaxArchiveSecond, ms |-> 1]}

\* a row of the frame: the type of its open_time ("int", "float", "nan" for a
\* float that is NaN, "str" for text), the value, and whether float() takes
\* its open, high, low, close and volume
FrameRow(type, t, fields_ok) ==
    [type |-> type, open_time |-> t, numeric |-> fields_ok]

\* the rows a frame may hold
FrameRows ==
    {FrameRow("int", t, TRUE) : t \in FrameTimes}
      \cup {FrameRow("int", [s |-> 19753 * SecondsPerDay, ms |-> 0], FALSE),
            FrameRow("str", [s |-> 19753 * SecondsPerDay, ms |-> 0], TRUE),
            FrameRow("nan", [s |-> 0, ms |-> 0], TRUE)}

\* isinstance(timestamp_ms, (int, float)): NaN is a float
IsNumber(row) == row.type \in {"int", "float", "nan"}

\* a range check that refuses the two ends of the range
OutOfRangeAtTheEnds(row) ==
    /\ row.type # "nan"
    /\ \/ row.open_time.s <= MinArchiveSecond
       \/ row.open_time.s >= MaxArchiveSecond

\* timestamp_s < 1483228800 or timestamp_s > 1893456000: both are false of NaN
OutOfRange(row) ==
    /\ row.type # "nan"
    /\ \/ row.open_time.s < MinArchiveSecond
       \/ row.open_time.s > MaxArchiveSecond
       \/ row.open_time.s = MaxArchiveSecond /\ row.open_time.ms > 0

\* datetime.utcfromtimestamp(timestamp_s) or a float(...) raises ValueError or
\* TypeError
CoercionFails(row) == row.type = "nan" \/ ~ row.numeric

\* the BarData of lines 302-309
BarOfRow(row) == BarData(row.open_time, 1, 1, 1)

\* a download_from_archive call at line 289: df holds the rows of the CSV
InitArchive ==
    /\ NoClientCall /\ NoWriterCall /\ NoDownloadData /\ NoBacktest
    /\ a_state = "rows"
    /\ a_rows \in SeqsUpTo(FrameRows, MaxFrameRows)
    /\ a_next = 1
    /\ a_bars = <<>>

InRowLoop == a_state = "rows" /\ a_next <= Len(a_rows)

\* the loop goes on to the next row
NextRow ==
    /\ a_next' = a_next + 1
    /\ UNCHANGED <<input_vars, pc, log_vars, range_vars, klines_vars, disk_vars,
                   writer_vars, download_vars, backtest_vars, a_state, a_rows>>

\* lines 294-295: open_time is no int or float, continue
RowNotNumber ==
    /\ InRowLoop
    /\ ~ IsNumber(a_rows[a_next])
    /\ UNCHANGED a_bars
    /\ NextRow

\* lines 296-299: outside 2017..2030, continue
RowOutOfRange ==
    /\ InRowLoop
    /\ IsNumber(a_rows[a_next]) /\ OutOfRange(a_rows[a_next])
    /\ UNCHANGED a_bars
    /\ NextRow

\* lines 301-312: building the bar raises, except (...): continue
RowCoercionFails ==
    /\ InRowLoop
    /\ IsNumber(a_rows[a_next]) /\ ~ OutOfRange(a_rows[a_next])
    /\ CoercionFails(a_rows[a_next])
    /\ UNCHANGED a_bars
    /\ NextRow

\* lines 301-310: bars.append(BarData(...))
RowAppended ==
    /\ InRowLoop
    /\ IsNumber(a_rows[a_next]) /\ ~ OutOfRange(a_rows[a_next])
    /\ ~ CoercionFails(a_rows[a_next])
    /\ a_bars' = Append(a_bars, BarOfRow(a_rows[a_next]))
    /\ NextRow

\* line 314: return bars
ArchiveRowsReturned ==
    /\ a_state = "rows" /\ a_next > Len(a_rows)
    /\ a_state' = "returned"
    /\ UNCHANGED <<input_vars, pc, log_vars, range_vars, klines_vars, disk_vars,
                   writer_vars, download_vars, backtest_vars, a_rows, a_next, a_bars>>

ArchiveNext ==
    \/ RowNotNumber
    \/ RowOutOfRange
    \/ RowCoercionFails
    \/ RowAppended
    \/ ArchiveRowsReturned

\* the row loop of one download_from_archive call
SpecArchive == InitArchive /\ [][ArchiveNext]_vars

\* a row with a numeric open_time whose epoch second lies within
\* [1483228800, 1893456000] and whose fields are numbers
ValidRow(row) ==
    /\ row.type \in {"int", "float"}
    /\ MinArchiveSecond <= row.open_time.s
    /\ \/ row.open_time.s < MaxArchiveSecond
       \/ row.open_time.s = MaxArchiveSecond /\ row.open_time.ms = 0
    /\ row.numeric

\* C29: the bars of download_from_archive are those of the valid rows of the
\* file, one per row and in file order: every bar comes from a row with a
\* numeric open_time inside the range, and a row that fails a check is
\* skipped on its own
ArchiveRowsValidated ==
    a_state # "idle" =>
       LET seen == SubSeq(a_rows, 1, a_next - 1)
           valid == SelectSeq(seen, ValidRow)
       IN  /\ Len(a_bars) = Len(valid)
           /\ \A i \in 1..Len(valid) :
                 /\ a_bars[i].timestamp = valid[i].open_time
                 /\ MinArchiveSecond <= a_bars[i].timestamp.s
                 /\ a_bars[i].timestamp.s <= MaxArchiveSecond

\* C29 happens: a file of three rows, the first outside the range, the second
\* with a field that is no number, the third valid and at the end of the
\* range, was read to its end
BadRowsBeforeAValidRow ==
    /\ a_state = "returned" /\ Len(a_rows) = 3
    /\ a_rows[1].open_time.s > MaxArchiveSecond
    /\ a_rows[2].type = "int" /\ ~ a_rows[2].numeric
    /\ a_rows[3].open_time = [s |-> MaxArchiveSecond, ms |-> 0]
    /\ Len(a_bars) = 1

\* ------------------------------------ run_backtest, build_backtest_config
\* the index of the last "." of a name, 0 when it has none
LastDot(name) ==
    LET dots == {i \in 1..Len(name) : name[i] = "."}
    IN  IF dots = {} THEN 0 ELSE CHOOSE i \in dots : \A j \in dots : j <= i

\* Path.suffix: from the last dot, unless the name starts or ends with it
Suffix(name) ==
    LET i == LastDot(name)
    IN  IF 1 < i /\ i < Len(name) THEN SubSeq(name, i, Len(name)) ELSE <<>>

\* Path.stem: the name without its suffix
Stem(name) == SubSeq(name, 1, Len(name) - Len(Suffix(name)))

MainPy == <<"m", "a", "i", "n", ".", "p", "y">>

\* the file names given to build_backtest_config: main.py, a.txt, a.PY, .py,
\* a.py.txt and a name without a dot
AlgorithmNames ==
    {MainPy, <<"a", ".", "t", "x", "t">>, <<"a", ".", "P", "Y">>, <<".", "p", "y">>,
     <<"a", ".", "p", "y", ".", "t", "x", "t">>, <<"a">>}

\* what a path is on the disk
PathKinds == {"missing", "file", "dir"}

\* the return codes of the engine process
EngineExitCodes == {0, 1}

\* lines 76-104 of config.py: the two checks, then the config (the keys that
\* depend on the arguments)
build_backtest_config(algorithm_file, results_dir) ==
    IF algorithm_file.kind = "missing"
    THEN [raised |-> TRUE, error |-> "FileNotFoundError", config |-> <<>>]
    ELSE IF Suffix(algorithm_file.name) # <<".", "p", "y">>
    THEN [raised |-> TRUE, error |-> "ValueError", config |-> <<>>]
    ELSE [raised |-> FALSE, error |-> "none",
          config |-> <<[algorithm_type_name |-> Stem(algorithm_file.name),
                        algorithm_location |-> algorithm_file.name,
                        results_destination_folder |-> results_dir]>>]

\* the checks of run_backtest with the check of the engine DLL left out
InputErrorWithoutEngineCheck(env) ==
    IF env.project # "dir" THEN "FileNotFoundError"
    ELSE IF env.main = "missing" THEN "FileNotFoundError"
    ELSE "none"

\* lines 31-45 of backtest.py: is_dir(), exists() of main.py, exists() of the DLL
InputError(env) ==
    IF env.project # "dir" THEN "FileNotFoundError"
    ELSE IF env.main = "missing" THEN "FileNotFoundError"
    ELSE IF ~ env.dll THEN "RuntimeError"
    ELSE "none"

NoEffects == [results_dirs |-> 0, configs_written |-> 0, configs_left |-> 0,
              engine_runs |-> 0]

\* run_backtest(project_path) called: what the project path and its main.py
\* are, whether the engine DLL and dotnet are there, whether the results
\* directory and the temporary config file can be made
InitRunBacktest ==
    /\ b_op = "run_backtest"
    /\ b_env \in [project : PathKinds, main : PathKinds, dll : BOOLEAN,
                  dotnet : BOOLEAN, results_ok : BOOLEAN, tmp_ok : BOOLEAN]
    /\ b_env.main # "missing" => b_env.project = "dir"
    /\ b_algorithm = <<>>

\* build_backtest_config(algorithm_file, results_dir) called on its own
InitBuildConfig ==
    /\ b_op = "build_backtest_config"
    /\ b_env = <<>>
    /\ b_algorithm \in {<<[name |-> n, kind |-> k]>> :
                          n \in AlgorithmNames, k \in PathKinds}

InitBacktest ==
    /\ NoClientCall /\ NoWriterCall /\ NoDownloadData /\ NoArchiveCall
    /\ InitRunBacktest \/ InitBuildConfig
    /\ b_pc = "called"
    /\ b_effects = NoEffects
    /\ b_config = <<>> /\ b_error = "none" /\ b_exit = -1

\* what no step of a backtest changes
BacktestFrame ==
    UNCHANGED <<input_vars, pc, log_vars, range_vars, klines_vars, disk_vars,
                writer_vars, download_vars, archive_vars, b_op, b_env, b_algorithm>>

\* lines 30-45: one of the checks raises
BacktestInputRefused ==
    /\ b_op = "run_backtest" /\ b_pc = "called"
    /\ InputError(b_env) # "none"
    /\ b_pc' = "raised"
    /\ b_error' = InputError(b_env)
    /\ UNCHANGED <<b_effects, b_config, b_exit>>
    /\ BacktestFrame

\* lines 47-50: results_dir.mkdir(parents=True, exist_ok=True)
ResultsDirMade ==
    /\ b_op = "run_backtest" /\ b_pc = "called"
    /\ InputError(b_env) = "none"
    /\ IF b_env.results_ok
       THEN /\ b_effects' = [b_effects EXCEPT !.results_dirs = @ + 1]
            /\ b_pc' = "results_dir_made"
            /\ UNCHANGED b_error
       ELSE /\ b_pc' = "raised"
            /\ b_error' = "OSError"
            /\ UNCHANGED b_effects
    /\ UNCHANGED <<b_config, b_exit>>
    /\ BacktestFrame

\* line 52: config = build_backtest_config(algorithm_file, results_dir)
ConfigBuilt ==
    /\ b_op = "run_backtest" /\ b_pc = "results_dir_made"
    /\ LET r == build_backtest_config([name |-> MainPy, kind |-> b_env.main],
                                      "results_dir")
       IN  /\ b_pc' = IF r.raised THEN "raised" ELSE "config_built"
           /\ b_error' = r.error
           /\ b_config' = r.config
    /\ UNCHANGED <<b_effects, b_exit>>
    /\ BacktestFrame

\* line 53: config_path = write_config(config), a temporary file
ConfigWritten ==
    /\ b_op = "run_backtest" /\ b_pc = "config_built"
    /\ IF b_env.tmp_ok
       THEN /\ b_effects' = [b_effects EXCEPT !.configs_written = @ + 1,
                                              !.configs_left = @ + 1]
            /\ b_pc' = "config_written"
            /\ UNCHANGED b_error
       ELSE /\ b_pc' = "raised"
            /\ b_error' = "OSError"
            /\ UNCHANGED b_effects
    /\ UNCHANGED <<b_config, b_exit>>
    /\ BacktestFrame

\* lines 61-68: the engine is run and its return code returned, or dotnet is
\* not found; either way the config file is removed
EngineRun ==
    /\ b_op = "run_backtest" /\ b_pc = "config_written"
    /\ IF b_env.dotnet
       THEN /\ \E code \in EngineExitCodes : b_exit' = code
            /\ b_effects' = [b_effects EXCEPT !.engine_runs = @ + 1,
                                              !.configs_left = @ - 1]
            /\ b_pc' = "returned"
            /\ UNCHANGED b_error
       ELSE /\ b_effects' = [b_effects EXCEPT !.configs_left = @ - 1]
            /\ b_pc' = "raised"
            /\ b_error' = "FileNotFoundError"
            /\ UNCHANGED b_exit
    /\ UNCHANGED b_config
    /\ BacktestFrame

\* build_backtest_config called on its own returns or raises
BuildConfigCalled ==
    /\ b_op = "build_backtest_config" /\ b_pc = "called"
    /\ LET r == build_backtest_config(b_algorithm[1], "results_dir")
       IN  /\ b_pc' = IF r.raised THEN "raised" ELSE "returned"
           /\ b_error' = r.error
           /\ b_config' = r.config
    /\ UNCHANGED <<b_effects, b_exit>>
    /\ BacktestFrame

BacktestNext ==
    \/ BacktestInputRefused
    \/ ResultsDirMade
    \/ ConfigBuilt
    \/ ConfigWritten
    \/ EngineRun
    \/ BuildConfigCalled

\* one call of run_backtest or of build_backtest_config
SpecBacktest == InitBacktest /\ [][BacktestNext]_vars

\* the name ends with ".py"
EndsWithPy(name) ==
    Len(name) >= 3 /\ SubSeq(name, Len(name) - 2, Len(name)) = <<".", "p", "y">>

\* C23: a run_backtest call whose project directory or main.py is missing
\* ends with FileNotFoundError and one whose engine DLL is missing (the project
\* and main.py being there) with RuntimeError, and such a call makes
\* no results directory, writes no config file and starts no engine;
\* build_backtest_config raises FileNotFoundError for a missing algorithm file
\* and ValueError for a file whose name does not end with .py
InputsCheckedFirst ==
    /\ b_op = "run_backtest" =>
          LET missing_input == b_env.project # "dir" \/ b_env.main = "missing"
          IN  (missing_input \/ ~ b_env.dll) =>
                 /\ b_effects = NoEffects
                 /\ b_pc \in {"called", "raised"}
                 /\ b_pc = "raised" =>
                       b_error = IF missing_input THEN "FileNotFoundError"
                                 ELSE "RuntimeError"
    /\ (b_op = "build_backtest_config" /\ b_pc # "called") =>
          /\ b_algorithm[1].kind = "missing" =>
                b_pc = "raised" /\ b_error = "FileNotFoundError"
          /\ (b_algorithm[1].kind # "missing" /\ ~ EndsWithPy(b_algorithm[1].name)) =>
                b_pc = "raised" /\ b_error = "ValueError"

\* C23 happens: the project and its main.py are there, the engine DLL is
\* not, and run_backtest has raised
EngineMissingRaised ==
    /\ b_op = "run_backtest" /\ b_pc = "raised"
    /\ b_env.project = "dir" /\ b_env.main = "file" /\ ~ b_env.dll
    /\ b_env.results_ok /\ b_env.tmp_ok /\ b_env.dotnet

\* ------------------------------- the writer called on a filled directory
\* the bar lists the directory was filled with: two minutes of 2024-01-31, and
\* a second of 2024-01-31 with one of 2024-02-01
PriorBarLists ==
    {<<BarData(19753 * SecondsPerDay, 12, 12, 1),
       BarData(19753 * SecondsPerDay + 86399, 12, 12, 1)>>,
     <<BarData(19753 * SecondsPerDay + 86399, 1, 1, 1),
       BarData(19754 * SecondsPerDay + 3661, 1, 1, 1)>>}

\* the intervals of the calls on a filled directory
RewriteIntervals == {"1m", "1h", "1d"}

\* the files left by earlier write_bars calls, of bars0, for every symbol and
\* asset class, in the minute and the hour layout
PriorDisk(bars0) ==
    UNION {Range(write_bars(bars0, s, <<"b", "i", "n", "a", "n", "c", "e">>, r, c)) :
              s \in WriterSymbols, r \in {"minute", "hour"}, c \in AssetClasses}

\* write_bars about to be called on a data directory earlier calls have filled
InitRewrite ==
    /\ NoClientCall /\ NoDownloadData /\ NoArchiveCall /\ NoBacktest
    /\ \E bars0 \in PriorBarLists :
          /\ files = PriorDisk(bars0)
          /\ dirs = {DirOf(f.path) : f \in PriorDisk(bars0)}
    /\ w_pc = "called"
    /\ w_bars \in SeqsUpTo(WriterBars, MaxWriterBars)
    /\ w_symbol \in WriterSymbols
    /\ w_market \in WriterMarkets
    /\ w_interval \in RewriteIntervals
    /\ w_asset_class \in AssetClasses
    /\ w_resolution = "none" /\ w_fail_at = 0 /\ w_written = <<>> /\ w_before = {}

\* writer.write_bars called once more with the same arguments
WriteBarsAgain ==
    /\ w_pc = "returned"
    /\ LET zips == write_bars(w_bars, w_symbol, w_market, w_resolution, w_asset_class)
       IN  \E k \in 0..Len(zips), m \in WriteFailures :
              LET out == WriteOutcome(files, dirs, zips, k, m)
              IN  /\ (k = 0 => m = "mkdir")
                  /\ files' = out.files
                  /\ dirs' = out.dirs
                  /\ w_written' = out.written_files
                  /\ w_fail_at' = k
                  /\ w_pc' = IF out.raised THEN "raised" ELSE "returned_again"
    /\ UNCHANGED <<input_vars, pc, log_vars, range_vars, klines_vars, archive_vars,
                   backtest_vars, download_vars, w_bars, w_symbol, w_market,
                   w_interval, w_asset_class, w_resolution, w_before>>

RewriteNext ==
    \/ ResolveInterval
    \/ WriteBars
    \/ WriteBarsAgain

\* write_bars called, and called again, on a filled data directory
SpecRewrite == InitRewrite /\ [][RewriteNext]_vars

\* the bars of the call that belong in the file at path p: all of them in the
\* hour/daily layout, those of the date of the file in the per-date layout
BarsOfPath(p) ==
    {i \in 1..Len(w_bars) : p.date = <<>> \/ DateStr(w_bars[i].timestamp) = p.date}

\* C21: after write_bars has returned, once or a second time with the same
\* bars, the file at every written path holds the rows of the call's bars (of
\* the date of the file in the per-date layout), as many rows as bars, and
\* the files at every other path are those that were there before the first
\* call: the second call leaves what the first left
WrittenFilesReplacedInFull ==
    w_pc \in {"returned", "returned_again"} =>
       LET written == Range(w_written)
       IN  /\ \A p \in written :
                 /\ Cardinality({f \in files : f.path = p}) = 1
                 /\ \A f \in files :
                       f.path = p =>
                          /\ Len(f.rows) = Cardinality(BarsOfPath(p))
                          /\ \A j \in 1..Len(f.rows) :
                                \E i \in BarsOfPath(p) :
                                   ReadRow(f, f.rows[j]) = AsWritten(w_bars[i], w_resolution)
                          /\ \A i \in BarsOfPath(p) :
                                \E j \in 1..Len(f.rows) :
                                   ReadRow(f, f.rows[j]) = AsWritten(w_bars[i], w_resolution)
           /\ {f \in files : f.path \notin written}
                = {f \in w_before : f.path \notin written}

\* C21 happens: a minute file of two rows was written over with one bar, the
\* other files were left, and the same bars were written a second time
FileOfTwoRowsWrittenOver ==
    /\ w_pc = "returned_again" /\ w_resolution = "minute" /\ Len(w_bars) = 1
    /\ \E f \in w_before :
          f.path = w_written[1] /\ Len(f.rows) = 2
    /\ \E f \in files : f.path = w_written[1] /\ Len(f.rows) = 1
    /\ Cardinality(files) = Cardinality(w_before)

\* ------------------------------------------- the asset class of a download
\* the futures endpoints: the REST klines and the archive files of USD-M futures
FuturesEndpoints ==
    {<<"https://fapi.binance.com", "/fapi/v1/klines">>,
     <<"https://data.binance.vision", "/data/futures/um/daily/klines">>,
     <<"https://data.binance.vision", "/data/futures/um/monthly/klines">>}

\* the spot endpoints
SpotEndpoints ==
    {<<"https://api.binance.com", "/api/v3/klines">>,
     <<"https://data.binance.vision", "/data/spot/daily/klines">>,
     <<"https://data.binance.vision", "/data/spot/monthly/klines">>}

\* C22: in a download_data invocation with account type usdt_future or
\* coin_future every request goes to a futures endpoint and every file is
\* written under cryptofuture/; with any other account type every request
\* goes to a spot endpoint and every file is written under crypto/
AssetClassConsistent ==
    d_pc # "idle" =>
       IF d_account_type \in {"usdt_future", "coin_future"}
       THEN /\ d_log.endpoints \subseteq FuturesEndpoints
            /\ \A f \in files : f.path.asset_class = "cryptofuture"
       ELSE /\ d_log.endpoints \subseteq SpotEndpoints
            /\ \A f \in files : f.path.asset_class = "crypto"

\* C22 happens: a coin_future invocation with the archive has returned, its
\* requests sent to the three futures endpoints and a file written
CoinFutureDownloaded ==
    /\ d_pc = "returned" /\ d_account_type = "coin_future" /\ d_use_archive
    /\ d_log.endpoints = FuturesEndpoints
    /\ files # {}

====
